---- MODULE Spec2Model ----
(***************************************************************************)
(* Duplicate clustering of audio fingerprints (src/audio_metrics.py):      *)
(* AudioAnalyzer.compare_audio_fingerprints, find_duplicates_by_           *)
(* fingerprints, get_unique_files and comprehensive_duplicate_analysis;    *)
(* and the file organizer (src/beat_organizer.py): organize_files with     *)
(* its duplicate and version-family finders; and the scan, progress and   *)
(* cancel handlers of the two servers (src/beat_organizer_gui.py and       *)
(* src/beat_organizer_api_v2.py) with their background scans.              *)
(*                                                                         *)
(* A fingerprint string is a sequence of one-character strings.  A Python  *)
(* dict is a sequence of records in insertion order, so that iteration     *)
(* order, key overwrites and appends behave as in the code.                *)
(***************************************************************************)
EXTENDS Integers, Sequences, FiniteSets, TLC

VARIABLES
    fingerprints,          \* the argument dict {filepath: fingerprint}, in iteration order
    similarity_threshold,  \* the argument similarity_threshold (percent)
    duplicate_groups,      \* the dict returned by find_duplicates_by_fingerprints
    unique_files,          \* the list returned by get_unique_files
    pc,                    \* position of the caller: "start", "grouped", "done"
    caller_map,            \* the caller's own record of the dict it passed
    prior,                 \* the call before this one: its kind, threshold and result
    fp1, fp2,              \* arguments of a direct compare_audio_fingerprints call
    similarity,            \* return value of compare_audio_fingerprints(fp1, fp2)
    reverse_similarity,    \* return value of compare_audio_fingerprints(fp2, fp1)
    cpc,                   \* position of that caller: "args", "returned", "reversed"
    filepaths,             \* the list of file paths given to the analysis
    stored,                \* the fingerprint generate_fingerprint_only yields per path
    result,                \* what comprehensive_duplicate_analysis returned or raised
    audio_files,           \* the list of AudioFile that scan_directory returned
    args_execute,          \* the command line flag --execute
    dry_run,               \* the argument dry_run of organize_files
    detect_duplicates,     \* the argument detect_duplicates of organize_files
    disk_files,            \* the files of the file system: path and content
    disk_dirs,             \* the directories of the file system
    move_plan,             \* the local move_plan of organize_files
    opc,                   \* position of that caller: "cli", "call", "organized"
    scan_progress,         \* the module-level dict scan_progress of the Flask GUI
    scan_threads,          \* the background_scan threads started, in order of start
    scan_handlers,         \* POST /api/scan handlers between their check and their update
    scan_response,         \* the status of the last response to POST /api/scan
    tasks,                 \* TaskManager.tasks of the FastAPI server, by order of creation
    scan_tasks             \* the background_scan_task of each task: position and queue

vars == <<fingerprints, similarity_threshold, duplicate_groups, unique_files,
          pc, caller_map, prior, fp1, fp2, similarity, reverse_similarity, cpc,
          filepaths, stored, result, audio_files, args_execute, dry_run,
          detect_duplicates, disk_files, disk_dirs, move_plan, opc,
          scan_progress, scan_threads, scan_handlers, scan_response,
          tasks, scan_tasks>>

cluster_vars == <<fingerprints, similarity_threshold, duplicate_groups,
                  unique_files, pc, caller_map, prior>>

compare_vars == <<fp1, fp2, similarity, reverse_similarity, cpc>>

analysis_vars == <<filepaths, stored, result>>

organize_vars == <<audio_files, args_execute, dry_run, detect_duplicates,
                   disk_files, disk_dirs, move_plan, opc>>

gui_vars == <<scan_progress, scan_threads, scan_handlers, scan_response>>

api_vars == <<tasks, scan_tasks>>

server_vars == <<gui_vars, api_vars>>

\* What a step of the clustering, of a direct comparison, of the organizer,
\* of the Flask GUI, of the FastAPI server leaves alone.
not_cluster_vars == <<compare_vars, analysis_vars, organize_vars, server_vars>>
not_compare_vars == <<cluster_vars, analysis_vars, organize_vars, server_vars>>
not_organize_vars == <<cluster_vars, compare_vars, analysis_vars, server_vars>>
not_gui_vars == <<cluster_vars, compare_vars, analysis_vars, organize_vars, api_vars>>
not_api_vars == <<cluster_vars, compare_vars, analysis_vars, organize_vars, gui_vars>>

----------------------------------------------------------------------------
(* Bounds and inputs *)

MaxFiles == 4

\* Longest list of file paths given to the analysis.
MaxPaths == 3

Files == <<"f1", "f2", "f3", "f4", "f5", "f6">>

\* Python None, kept apart from every string (also from the empty string).
None == <<"None">>

Prefix1 == <<"A", "B", "C", "D", "1", "2", "3", "4">>
Prefix2 == <<"A", "B", "C", "D", "1", "2", "3", "5">>

\* Three fingerprints of 36 bits that share a prefix and differ in 1, 2 and
\* 3 bits (similarity 97.2, 94.4 and 91.7), one in another prefix one bit
\* away, one shorter than the prefix and one that int(.., 16) rejects.
FpA == Prefix1 \o <<"0">>
FpY == Prefix1 \o <<"1">>
FpX == Prefix1 \o <<"6">>
FpOther == Prefix2 \o <<"0">>
FpShort == <<"A", "B">>
FpBad == Prefix1 \o <<"G">>

\* A second string that int(.., 16) rejects, in the same prefix; two strings
\* of 7 characters one bit apart (similarity 96.4); three of 13 characters
\* one, one and two bits apart (similarity 98.08 and 96.15, on both sides of
\* the default threshold), and one of 13 characters one bit away from the
\* first of them, in the other prefix.
FpBad2 == Prefix1 \o <<"H">>
FpShort7 == <<"A", "B", "C", "D", "1", "2", "3">>
FpShort7b == <<"A", "B", "C", "D", "1", "2", "2">>
FpLong == Prefix1 \o <<"0", "0", "0", "0", "0">>
FpLongB == Prefix1 \o <<"0", "0", "0", "0", "1">>
FpLongC == Prefix1 \o <<"0", "0", "0", "0", "3">>
FpLongOther == Prefix2 \o <<"0", "0", "0", "0", "0">>

\* Fingerprints offered to the clustering.
Fingerprints == {None, <<>>, FpShort, FpA, FpY, FpX, FpBad}

\* Thresholds offered to the clustering: between the similarities above.
Thresholds == {94, 97}

\* The default of the parameter similarity_threshold.
DefaultThreshold == 98

\* Fingerprints and thresholds offered where the threshold is not a
\* percentage: undecodable strings next to decodable ones, thresholds below
\* 0, at 0 and above 100.
ConfigFingerprints == {FpA, FpY, FpBad, FpBad2}
ConfigThresholds == {-1, 0, 94, 101}

\* Fingerprints offered to the anchor loop: three of one prefix at different
\* distances, one of another prefix, and a file without fingerprint.
AnchorFingerprints == {None, FpA, FpY, FpX, FpOther}

\* Paths offered to the analysis, in lists that may repeat a path, and the
\* fingerprints their files yield: none, and two strings that are near
\* duplicates at the threshold the analysis passes.
AnalysisPaths == {"f1", "f2", "f3"}
AnalysisFingerprints == {None, FpLong, FpLongB}

\* Fingerprints and thresholds offered to the prefix buckets: two prefixes,
\* strings shorter than the prefix, the default threshold and one below it.
PrefixFingerprints == {FpLong, FpLongB, FpLongC, FpLongOther, FpShort7, FpShort7b}
PrefixThresholds == {96, DefaultThreshold}

\* Fingerprints offered where the prefix buckets are taken one by one: two
\* prefixes with two strings each, one bit apart within a prefix.
FpOtherB == Prefix2 \o <<"1">>
BucketFingerprints == {FpA, FpY, FpOther, FpOtherB}

\* Fingerprints offered where a progress callback is supplied.
CallbackFingerprints == {None, FpA, FpY, FpX}

\* Fingerprints offered to the pairwise search: four of one prefix, one of
\* them undecodable, and one of another prefix.
PairwiseFingerprints == {FpA, FpY, FpX, FpBad, FpOther}

\* Arguments offered to a direct comparison: also another prefix, both
\* letter cases, leading zeros, zero itself and different lengths.
CompareArgs ==
    Fingerprints \cup
    { FpOther, <<"0">>, <<"0", "0">>, <<"1">>, <<"F">>, <<"f">>, <<"0", "F">>,
      <<"a", "b">>, <<"G">>, <<"1", "0", "0">>, <<"F", "F", "F">> }

----------------------------------------------------------------------------
(* compare_audio_fingerprints *)

HexLetters == {"0", "1", "2", "3", "4", "5", "6", "7", "8", "9",
               "A", "B", "C", "D", "E", "F", "a", "b", "c", "d", "e", "f"}

\* Value of one base-16 digit as int(.., 16) reads it (either letter case).
HexValue(c) ==
    CASE c = "0" -> 0 [] c = "1" -> 1 [] c = "2" -> 2 [] c = "3" -> 3
      [] c = "4" -> 4 [] c = "5" -> 5 [] c = "6" -> 6 [] c = "7" -> 7
      [] c = "8" -> 8 [] c = "9" -> 9
      [] c \in {"A", "a"} -> 10 [] c \in {"B", "b"} -> 11
      [] c \in {"C", "c"} -> 12 [] c \in {"D", "d"} -> 13
      [] c \in {"E", "e"} -> 14 [] c \in {"F", "f"} -> 15

\* int(fp, 16) raises ValueError on a character that is not a base-16 digit.
\* (The sign, underscore, 0x and blank forms that int() also reads are not
\* among the characters offered here.)
RaisesValueError(fp) == \E i \in 1..Len(fp) : fp[i] \notin HexLetters

NibbleBits(v) == << (v \div 8) % 2, (v \div 4) % 2, (v \div 2) % 2, v % 2 >>

RECURSIVE DigitBits(_)
DigitBits(fp) ==
    IF fp = <<>> THEN <<>>
    ELSE NibbleBits(HexValue(Head(fp))) \o DigitBits(Tail(fp))

RECURSIVE StripLeadingZeros(_)
StripLeadingZeros(bits) ==
    IF Len(bits) <= 1 THEN bits
    ELSE IF Head(bits) = 0 THEN StripLeadingZeros(Tail(bits))
    ELSE bits

\* bin(int(fp, 16))[2:] : the binary digits of the number, without leading
\* zeros ("0" for zero).  The number itself exceeds 32 bits, so it is kept
\* as its digit sequence.
Bin(fp) == StripLeadingZeros(DigitBits(fp))

\* str.zfill(width): pad with zeros on the left up to width, never truncate.
RECURSIVE zfill(_, _)
zfill(bits, width) ==
    IF Len(bits) >= width THEN bits ELSE zfill(<<0>> \o bits, width)

Max(a, b) == IF a >= b THEN a ELSE b
Min(a, b) == IF a <= b THEN a ELSE b

RECURSIVE GCD(_, _)
GCD(a, b) == IF b = 0 THEN a ELSE GCD(b, a % b)

\* A similarity is the exact ratio num/den in lowest terms; 100.0 is 100/1
\* and 0.0 is 0/1.  The code computes (matches / len) * 100 in binary
\* floating point; for the lengths and thresholds offered here its result
\* compares with the threshold as the exact ratio does.
Ratio(n, d) == LET g == GCD(n, d) IN [num |-> n \div g, den |-> d \div g]

Sim100 == Ratio(100, 1)
Sim0 == Ratio(0, 1)

\* similarity >= similarity_threshold
AtLeast(sim, threshold) == sim.num >= threshold * sim.den

\* sum(1 for a, b in zip(bin1, bin2) if a == b)
Matches(bin1, bin2) ==
    Cardinality({i \in 1..Min(Len(bin1), Len(bin2)) : bin1[i] = bin2[i]})

\* Variant: only the first argument is padded to the common length.
compare_audio_fingerprints_Unaligned(a, b) ==
    IF a = None \/ a = <<>> \/ b = None \/ b = <<>> \/ a = b
    THEN (IF a = b THEN Sim100 ELSE Sim0)
    ELSE IF RaisesValueError(a) \/ RaisesValueError(b) THEN Sim0
    ELSE LET b1 == zfill(Bin(a), Len(a) * 4)
             b2 == zfill(Bin(b), Len(b) * 4)
             max_len == Max(Len(b1), Len(b2))
             bin1 == zfill(b1, max_len)
         IN  Ratio(Matches(bin1, b2) * 100, Len(bin1))

\* Variant: an empty argument is answered with 0.0 before the equality test.
compare_audio_fingerprints_EmptyFirst(a, b) ==
    IF a = None \/ a = <<>> \/ b = None \/ b = <<>> THEN Sim0
    ELSE IF a = b THEN Sim100
    ELSE IF RaisesValueError(a) \/ RaisesValueError(b) THEN Sim0
    ELSE LET b1 == zfill(Bin(a), Len(a) * 4)
             b2 == zfill(Bin(b), Len(b) * 4)
             max_len == Max(Len(b1), Len(b2))
             bin1 == zfill(b1, max_len)
             bin2 == zfill(b2, max_len)
         IN  Ratio(Matches(bin1, bin2) * 100, Len(bin1))

\* Variant: a string that int(.., 16) rejects counts as a full match.
compare_audio_fingerprints_ErrorAsMatch(a, b) ==
    IF a = None \/ a = <<>> \/ b = None \/ b = <<>> \/ a = b
    THEN (IF a = b THEN Sim100 ELSE Sim0)
    ELSE IF RaisesValueError(a) \/ RaisesValueError(b) THEN Sim100
    ELSE LET b1 == zfill(Bin(a), Len(a) * 4)
             b2 == zfill(Bin(b), Len(b) * 4)
             max_len == Max(Len(b1), Len(b2))
             bin1 == zfill(b1, max_len)
             bin2 == zfill(b2, max_len)
         IN  Ratio(Matches(bin1, bin2) * 100, Len(bin1))

\* Variant: the binary digits are not padded to four per character.
compare_audio_fingerprints_Unpadded(a, b) ==
    IF a = None \/ a = <<>> \/ b = None \/ b = <<>> \/ a = b
    THEN (IF a = b THEN Sim100 ELSE Sim0)
    ELSE IF RaisesValueError(a) \/ RaisesValueError(b) THEN Sim0
    ELSE LET b1 == Bin(a)
             b2 == Bin(b)
             max_len == Max(Len(b1), Len(b2))
             bin1 == zfill(b1, max_len)
             bin2 == zfill(b2, max_len)
         IN  Ratio(Matches(bin1, bin2) * 100, Len(bin1))

compare_audio_fingerprints(a, b) ==
    IF a = None \/ a = <<>> \/ b = None \/ b = <<>> \/ a = b
    THEN (IF a = b THEN Sim100 ELSE Sim0)
    ELSE IF RaisesValueError(a) \/ RaisesValueError(b) THEN Sim0
    ELSE LET b1 == zfill(Bin(a), Len(a) * 4)
             b2 == zfill(Bin(b), Len(b) * 4)
             max_len == Max(Len(b1), Len(b2))
             bin1 == zfill(b1, max_len)
             bin2 == zfill(b2, max_len)
         IN  Ratio(Matches(bin1, bin2) * 100, Len(bin1))

----------------------------------------------------------------------------
(* Python dict and list helpers *)

\* Position of key k in dict d (a sequence of records with field key), 0 if absent.
KeyIndex(d, k) ==
    IF \E i \in 1..Len(d) : d[i].key = k
    THEN CHOOSE i \in 1..Len(d) : d[i].key = k
    ELSE 0

\* d[k] = v : replace the value in place when k is present, else append.
DictSet(d, k, v) ==
    LET i == KeyIndex(d, k)
    IN  IF i = 0 THEN Append(d, [key |-> k, val |-> v])
        ELSE [d EXCEPT ![i] = [key |-> k, val |-> v]]

\* d1.update(d2)
RECURSIVE DictUpdate(_, _)
DictUpdate(d1, d2) ==
    IF d2 = <<>> THEN d1
    ELSE DictUpdate(DictSet(d1, Head(d2).key, Head(d2).val), Tail(d2))

Range(s) == {s[i] : i \in 1..Len(s)}

\* list(d.keys())
Keys(d) == [i \in 1..Len(d) |-> d[i].key]

\* fingerprint[:n]
Take(s, n) == SubSeq(s, 1, Min(n, Len(s)))

----------------------------------------------------------------------------
(* find_duplicates_by_fingerprints *)

PrefixLen == 8

\* Python truth value of a fingerprint: None and "" are false.
Truthy(fp) == fp # None /\ fp # <<>>

\* Variant: no entry is filtered out.
valid_fingerprints_Unfiltered(fps) == fps

\* valid_fingerprints = {fp: files for fp, files in fingerprints.items() if files}
valid_fingerprints(fps) == SelectSeq(fps, LAMBDA e : Truthy(e.val))

\* Variant: a file joins the bucket of its fingerprint only when that bucket
\* was the last one touched; otherwise the bucket is started afresh.
RECURSIVE fingerprint_to_files_Consecutive(_, _)
fingerprint_to_files_Consecutive(valid, acc) ==
    IF valid = <<>> THEN acc
    ELSE LET filepath == Head(valid).key
             fingerprint == Head(valid).val
         IN  fingerprint_to_files_Consecutive(Tail(valid),
                 IF acc # <<>> /\ acc[Len(acc)].key = fingerprint
                 THEN [acc EXCEPT ![Len(acc)].val = Append(@, filepath)]
                 ELSE DictSet(acc, fingerprint, <<filepath>>))

\* Phase 1: fingerprint_to_files, fingerprint -> list of file paths.
RECURSIVE fingerprint_to_files(_, _)
fingerprint_to_files(valid, acc) ==
    IF valid = <<>> THEN acc
    ELSE LET filepath == Head(valid).key
             fingerprint == Head(valid).val
             i == KeyIndex(acc, fingerprint)
         IN  fingerprint_to_files(Tail(valid),
                 IF i # 0
                 THEN [acc EXCEPT ![i].val = Append(@, filepath)]
                 ELSE Append(acc, [key |-> fingerprint, val |-> <<filepath>>]))

\* Variant: len(files) > 2.
exact_duplicates_OffByOne(f2f) == SelectSeq(f2f, LAMBDA e : Len(e.val) > 2)

\* exact_duplicates = {fp: files for ... if len(files) > 1}
exact_duplicates(f2f) == SelectSeq(f2f, LAMBDA e : Len(e.val) > 1)

\* Variant: len(files) >= 1, the first file of every bucket is a single.
RECURSIVE single_files_All(_)
single_files_All(f2f) ==
    IF f2f = <<>> THEN <<>>
    ELSE <<[key |-> Head(f2f).key, val |-> Head(f2f).val[1]]>>
             \o single_files_All(Tail(f2f))

\* single_files = {fp: files[0] for ... if len(files) == 1}
RECURSIVE single_files(_)
single_files(f2f) ==
    IF f2f = <<>> THEN <<>>
    ELSE (IF Len(Head(f2f).val) = 1
          THEN <<[key |-> Head(f2f).key, val |-> Head(f2f).val[1]]>>
          ELSE <<>>) \o single_files(Tail(f2f))

\* Variant: every candidate goes to one bucket, whatever its prefix.
RECURSIVE hash_prefixes_OneBucket(_, _)
hash_prefixes_OneBucket(singles, acc) ==
    IF singles = <<>> THEN acc
    ELSE LET fingerprint == Head(singles).key
             filepath == Head(singles).val
             cand == <<fingerprint, filepath>>
         IN  hash_prefixes_OneBucket(Tail(singles),
                 IF Len(fingerprint) >= PrefixLen
                 THEN (IF acc = <<>>
                       THEN <<[key |-> <<>>, val |-> <<cand>>]>>
                       ELSE [acc EXCEPT ![1].val = Append(@, cand)])
                 ELSE acc)

\* Variant: the prefix is 4 characters long.
RECURSIVE hash_prefixes_Prefix4(_, _)
hash_prefixes_Prefix4(singles, acc) ==
    IF singles = <<>> THEN acc
    ELSE LET fingerprint == Head(singles).key
             filepath == Head(singles).val
             prefix == Take(fingerprint, 4)
             i == KeyIndex(acc, prefix)
             cand == <<fingerprint, filepath>>
         IN  hash_prefixes_Prefix4(Tail(singles),
                 IF Len(fingerprint) >= 4
                 THEN (IF i = 0
                       THEN Append(acc, [key |-> prefix, val |-> <<cand>>])
                       ELSE [acc EXCEPT ![i].val = Append(@, cand)])
                 ELSE acc)

\* Variant: a candidate is also appended to the bucket of its first 4 characters.
RECURSIVE hash_prefixes_TwoBuckets(_, _)
hash_prefixes_TwoBuckets(singles, acc) ==
    IF singles = <<>> THEN acc
    ELSE LET fingerprint == Head(singles).key
             filepath == Head(singles).val
             cand == <<fingerprint, filepath>>
             prefix == Take(fingerprint, PrefixLen)
             i == KeyIndex(acc, prefix)
             acc1 == IF i = 0
                     THEN Append(acc, [key |-> prefix, val |-> <<cand>>])
                     ELSE [acc EXCEPT ![i].val = Append(@, cand)]
             short == Take(fingerprint, 4)
             k == KeyIndex(acc1, short)
         IN  hash_prefixes_TwoBuckets(Tail(singles),
                 IF Len(fingerprint) >= PrefixLen
                 THEN (IF k = 0
                       THEN Append(acc1, [key |-> short, val |-> <<cand>>])
                       ELSE [acc1 EXCEPT ![k].val = Append(@, cand)])
                 ELSE acc)

\* Phase 2: hash_prefixes, prefix -> list of (fingerprint, filepath).
RECURSIVE hash_prefixes(_, _)
hash_prefixes(singles, acc) ==
    IF singles = <<>> THEN acc
    ELSE LET fingerprint == Head(singles).key
             filepath == Head(singles).val
             prefix == Take(fingerprint, PrefixLen)
             i == KeyIndex(acc, prefix)
             cand == <<fingerprint, filepath>>
         IN  hash_prefixes(Tail(singles),
                 IF Len(fingerprint) >= PrefixLen
                 THEN (IF i = 0
                       THEN Append(acc, [key |-> prefix, val |-> <<cand>>])
                       ELSE [acc EXCEPT ![i].val = Append(@, cand)])
                 ELSE acc)

\* Variant: a candidate is compared with the member added last, not with the anchor.
RECURSIVE ScanFrom_Chained(_, _, _, _, _)
ScanFrom_Chained(candidates, anchor, j, threshold, st) ==
    IF j > Len(candidates) THEN st
    ELSE LET c2 == candidates[j]
             last == st.group[Len(st.group)]
             k == CHOOSE n \in 1..Len(candidates) : candidates[n][2] = last
         IN  ScanFrom_Chained(candidates, anchor, j + 1, threshold,
                 IF c2[1] \in st.processed_in_group THEN st
                 ELSE IF AtLeast(compare_audio_fingerprints(candidates[k][1], c2[1]),
                                 threshold)
                 THEN [group |-> Append(st.group, c2[2]),
                       processed_in_group |-> st.processed_in_group \cup {c2[1]}]
                 ELSE st)

\* Variant: the comparison with the threshold is inverted (similarity <= threshold).
RECURSIVE ScanFrom_Inverted(_, _, _, _, _)
ScanFrom_Inverted(candidates, anchor, j, threshold, st) ==
    IF j > Len(candidates) THEN st
    ELSE LET c2 == candidates[j]
             sim == compare_audio_fingerprints(anchor, c2[1])
         IN  ScanFrom_Inverted(candidates, anchor, j + 1, threshold,
                 IF c2[1] \in st.processed_in_group THEN st
                 ELSE IF sim.num <= threshold * sim.den
                 THEN [group |-> Append(st.group, c2[2]),
                       processed_in_group |-> st.processed_in_group \cup {c2[1]}]
                 ELSE st)

\* Inner loop of phase 3: for j, (fp2, filepath2) in enumerate(candidates[i+1:], i+1).
\* st carries group and processed_in_group.
RECURSIVE ScanFrom(_, _, _, _, _)
ScanFrom(candidates, anchor, j, threshold, st) ==
    IF j > Len(candidates) THEN st
    ELSE LET c2 == candidates[j]
         IN  ScanFrom(candidates, anchor, j + 1, threshold,
                 IF c2[1] \in st.processed_in_group THEN st
                 ELSE IF AtLeast(compare_audio_fingerprints(anchor, c2[1]), threshold)
                 THEN [group |-> Append(st.group, c2[2]),
                       processed_in_group |-> st.processed_in_group \cup {c2[1]}]
                 ELSE st)

\* Variant: a group is kept whatever its length (len(group) >= 1).
RECURSIVE AnchorFrom_Singletons(_, _, _, _, _)
AnchorFrom_Singletons(candidates, i, threshold, processed_in_group, near) ==
    IF i > Len(candidates) THEN near
    ELSE LET c1 == candidates[i]
         IN  IF c1[1] \in processed_in_group
             THEN AnchorFrom_Singletons(candidates, i + 1, threshold,
                                        processed_in_group, near)
             ELSE LET st == ScanFrom(candidates, c1[1], i + 1, threshold,
                                [group |-> <<c1[2]>>,
                                 processed_in_group |-> processed_in_group \cup {c1[1]}])
                  IN  AnchorFrom_Singletons(candidates, i + 1, threshold,
                          st.processed_in_group, DictSet(near, c1[2], st.group))

\* Variant: a candidate already in a group is not skipped as an anchor.
RECURSIVE AnchorFrom_NoSkip(_, _, _, _, _)
AnchorFrom_NoSkip(candidates, i, threshold, processed_in_group, near) ==
    IF i > Len(candidates) THEN near
    ELSE LET c1 == candidates[i]
             st == ScanFrom(candidates, c1[1], i + 1, threshold,
                       [group |-> <<c1[2]>>, processed_in_group |-> {c1[1]}])
         IN  AnchorFrom_NoSkip(candidates, i + 1, threshold, processed_in_group,
                 IF Len(st.group) > 1 THEN DictSet(near, c1[2], st.group)
                 ELSE near)

\* Outer loop of phase 3 over one prefix group: for i, (fp1, filepath1) in
\* enumerate(candidates).  near is near_duplicate_groups so far.
RECURSIVE AnchorFrom(_, _, _, _, _)
AnchorFrom(candidates, i, threshold, processed_in_group, near) ==
    IF i > Len(candidates) THEN near
    ELSE LET c1 == candidates[i]
         IN  IF c1[1] \in processed_in_group
             THEN AnchorFrom(candidates, i + 1, threshold, processed_in_group, near)
             ELSE LET st == ScanFrom(candidates, c1[1], i + 1, threshold,
                                [group |-> <<c1[2]>>,
                                 processed_in_group |-> processed_in_group \cup {c1[1]}])
                  IN  AnchorFrom(candidates, i + 1, threshold, st.processed_in_group,
                          IF Len(st.group) > 1 THEN DictSet(near, c1[2], st.group)
                          ELSE near)

\* Phase 3: for prefix, candidates in hash_prefixes.items().
RECURSIVE near_duplicate_groups(_, _, _)
near_duplicate_groups(prefixes, threshold, near) ==
    IF prefixes = <<>> THEN near
    ELSE near_duplicate_groups(Tail(prefixes), threshold,
             IF Len(Head(prefixes).val) <= 1 THEN near
             ELSE AnchorFrom(Head(prefixes).val, 1, threshold, {}, near))

\* for fingerprint, files in exact_duplicates.items(): all_duplicate_groups[files[0]] = files
RECURSIVE AddExact(_, _)
AddExact(exact, all) ==
    IF exact = <<>> THEN all
    ELSE AddExact(Tail(exact), DictSet(all, Head(exact).val[1], Head(exact).val))

find_duplicates_by_fingerprints(fps, threshold) ==
    LET f2f == fingerprint_to_files(valid_fingerprints(fps), <<>>)
        near == near_duplicate_groups(hash_prefixes(single_files(f2f), <<>>),
                                      threshold, <<>>)
    IN  DictUpdate(AddExact(exact_duplicates(f2f), <<>>), near)

\* A progress callback, as far as it can act on the caller's data: it is
\* handed two integers and a fresh string, and on its call number `at` it
\* stores val under key in the dict the caller passed (at = 0: it only
\* observes).
Invoke(callback, i, live) ==
    IF callback.at = i THEN DictSet(live, callback.key, callback.val) ELSE live

\* Variant: the loop of phase 1 reads the fingerprint from the caller's dict.
RECURSIVE fingerprint_to_files_with_callback_Live(_, _, _, _, _)
fingerprint_to_files_with_callback_Live(valid, live, i, callback, acc) ==
    IF i > Len(valid) THEN [fingerprint_to_files |-> acc, fingerprints |-> live]
    ELSE LET live1 == Invoke(callback, i, live)
             filepath == valid[i].key
             fingerprint == live1[KeyIndex(live1, filepath)].val
             k == KeyIndex(acc, fingerprint)
         IN  fingerprint_to_files_with_callback_Live(valid, live1, i + 1, callback,
                 IF k # 0
                 THEN [acc EXCEPT ![k].val = Append(@, filepath)]
                 ELSE Append(acc, [key |-> fingerprint, val |-> <<filepath>>]))

\* Phase 1 with progress_callback supplied: each round calls the callback
\* first and then files the pair taken from valid_fingerprints.
RECURSIVE fingerprint_to_files_with_callback(_, _, _, _, _)
fingerprint_to_files_with_callback(valid, live, i, callback, acc) ==
    IF i > Len(valid) THEN [fingerprint_to_files |-> acc, fingerprints |-> live]
    ELSE LET live1 == Invoke(callback, i, live)
             filepath == valid[i].key
             fingerprint == valid[i].val
             k == KeyIndex(acc, fingerprint)
         IN  fingerprint_to_files_with_callback(valid, live1, i + 1, callback,
                 IF k # 0
                 THEN [acc EXCEPT ![k].val = Append(@, filepath)]
                 ELSE Append(acc, [key |-> fingerprint, val |-> <<filepath>>]))

\* find_duplicates_by_fingerprints(fingerprints, threshold, progress_callback):
\* the groups returned and the caller's dict as the callback left it.
find_duplicates_with_callback(fps, threshold, callback) ==
    LET phase1 == fingerprint_to_files_with_callback(valid_fingerprints(fps), fps, 1,
                                                     callback, <<>>)
        f2f == phase1.fingerprint_to_files
        near == near_duplicate_groups(hash_prefixes(single_files(f2f), <<>>),
                                      threshold, <<>>)
    IN  [groups |-> DictUpdate(AddExact(exact_duplicates(f2f), <<>>), near),
         fingerprints |-> phase1.fingerprints]

----------------------------------------------------------------------------
(* find_audio_duplicates: the search over all pairs of a list of AudioMetrics, *)
(* of which filepath and audio_fingerprint are kept.                         *)

\* Variant: a member that joined a group is not added to processed.
RECURSIVE PairScan_Unmarked(_, _, _, _, _)
PairScan_Unmarked(metrics_list, i, j, threshold, st) ==
    IF j > Len(metrics_list) THEN st
    ELSE LET metrics2 == metrics_list[j]
         IN  PairScan_Unmarked(metrics_list, i, j + 1, threshold,
                 IF j \in st.processed \/ ~Truthy(metrics2.audio_fingerprint) THEN st
                 ELSE IF AtLeast(compare_audio_fingerprints(
                                     metrics_list[i].audio_fingerprint,
                                     metrics2.audio_fingerprint), threshold)
                 THEN [group |-> Append(st.group, metrics2), processed |-> st.processed]
                 ELSE st)

\* for j, metrics2 in enumerate(metrics_list[i+1:], i+1); st carries group
\* and processed (a set of list positions).
RECURSIVE PairScan(_, _, _, _, _)
PairScan(metrics_list, i, j, threshold, st) ==
    IF j > Len(metrics_list) THEN st
    ELSE LET metrics2 == metrics_list[j]
         IN  PairScan(metrics_list, i, j + 1, threshold,
                 IF j \in st.processed \/ ~Truthy(metrics2.audio_fingerprint) THEN st
                 ELSE IF AtLeast(compare_audio_fingerprints(
                                     metrics_list[i].audio_fingerprint,
                                     metrics2.audio_fingerprint), threshold)
                 THEN [group |-> Append(st.group, metrics2),
                       processed |-> st.processed \cup {j}]
                 ELSE st)

\* for i, metrics1 in enumerate(metrics_list)
RECURSIVE PairAnchor(_, _, _, _, _)
PairAnchor(metrics_list, i, threshold, processed, duplicates) ==
    IF i > Len(metrics_list) THEN duplicates
    ELSE LET metrics1 == metrics_list[i]
         IN  IF i \in processed \/ ~Truthy(metrics1.audio_fingerprint)
             THEN PairAnchor(metrics_list, i + 1, threshold, processed, duplicates)
             ELSE LET st == PairScan(metrics_list, i, i + 1, threshold,
                                [group |-> <<metrics1>>,
                                 processed |-> processed \cup {i}])
                  IN  PairAnchor(metrics_list, i + 1, threshold, st.processed,
                          IF Len(st.group) > 1
                          THEN DictSet(duplicates, metrics1.filepath, st.group)
                          ELSE duplicates)

find_audio_duplicates(metrics_list, threshold) ==
    PairAnchor(metrics_list, 1, threshold, {}, <<>>)

----------------------------------------------------------------------------
(* get_unique_files *)

\* Variant: only the keys (first members) of the groups are collected.
files_in_groups_KeysOnly(groups) == {groups[i].key : i \in 1..Len(groups)}

RECURSIVE files_in_groups(_)
files_in_groups(groups) ==
    IF groups = <<>> THEN {}
    ELSE Range(Head(groups).val) \cup files_in_groups(Tail(groups))

get_unique_files(all_filepaths, groups) ==
    SelectSeq(all_filepaths, LAMBDA f : f \notin files_in_groups(groups))

----------------------------------------------------------------------------
(* The clustering caller: one call of find_duplicates_by_fingerprints and  *)
(* get_unique_files, then at most one further pair of calls that repeats   *)
(* it, reorders the dict or changes the threshold.                         *)

\* All dicts of n entries over a set of fingerprints: the i-th inserted key
\* is Files[i].
InputMaps(n, universe) ==
    { [i \in 1..n |-> [key |-> Files[i], val |-> f[i]]] :
          f \in [1..n -> universe] }

NoPrior == [kind |-> "none", similarity_threshold |-> 0, duplicate_groups |-> <<>>]

NoPlan == [organized |-> <<>>, duplicates |-> <<>>, version_families |-> <<>>]

OrganizeIdle ==
    /\ audio_files = <<>>
    /\ args_execute = FALSE
    /\ dry_run = TRUE
    /\ detect_duplicates = TRUE
    /\ disk_files = {}
    /\ disk_dirs = {}
    /\ move_plan = NoPlan
    /\ opc = "idle"

NoResult == [outcome |-> "none"]

AnalysisIdle ==
    /\ stored = <<>>
    /\ result = NoResult

CompareIdle ==
    /\ fp1 = <<>>
    /\ fp2 = <<>>
    /\ similarity = Sim0
    /\ reverse_similarity = Sim0
    /\ cpc = "idle"

\* scan_progress as the module defines it (its fields current_file,
\* total_files and completed_files are display text and counters no branch
\* reads; they are left out).
NoScan == [scanning |-> FALSE, progress |-> 0, error |-> None, result |-> None]

\* A text and the result of the n-th scan, as values a field that may be
\* None holds.
Text(s) == <<s>>
ResultOf(n) == <<"result of scan", n>>

GuiIdle ==
    /\ scan_progress = NoScan
    /\ scan_threads = <<>>
    /\ scan_handlers = 0
    /\ scan_response = 0

ApiIdle ==
    /\ tasks = <<>>
    /\ scan_tasks = <<>>

ServerIdle == GuiIdle /\ ApiIdle

\* A caller about to make its first call with a dict over universe.
InitWith(universe, thresholds) ==
    /\ \E n \in 0..MaxFiles : fingerprints \in InputMaps(n, universe)
    /\ similarity_threshold \in thresholds
    /\ duplicate_groups = <<>>
    /\ unique_files = <<>>
    /\ pc = "start"
    /\ caller_map = fingerprints
    /\ prior = NoPrior
    /\ filepaths = Keys(fingerprints)
    /\ AnalysisIdle
    /\ CompareIdle
    /\ OrganizeIdle
    /\ ServerIdle

InitOver(universe) == InitWith(universe, Thresholds)

Init == InitOver(Fingerprints)

\* Variant: the entries without fingerprint are deleted from the argument itself.
FindDuplicates_FilterInPlace ==
    /\ pc = "start"
    /\ duplicate_groups' =
           find_duplicates_by_fingerprints(fingerprints, similarity_threshold)
    /\ fingerprints' = valid_fingerprints(fingerprints)
    /\ pc' = "grouped"
    /\ UNCHANGED <<similarity_threshold, unique_files, caller_map, prior>>
    /\ UNCHANGED not_cluster_vars

\* duplicate_groups = self.find_duplicates_by_fingerprints(fingerprints, threshold)
\* The function builds new dicts only; the argument is left as it was.
FindDuplicates ==
    /\ pc = "start"
    /\ duplicate_groups' =
           find_duplicates_by_fingerprints(fingerprints, similarity_threshold)
    /\ pc' = "grouped"
    /\ UNCHANGED <<fingerprints, similarity_threshold, unique_files, caller_map, prior>>
    /\ UNCHANGED not_cluster_vars

\* unique_files = self.get_unique_files(filepaths, duplicate_groups)
GetUniqueFiles ==
    /\ pc = "grouped"
    /\ unique_files' = get_unique_files(filepaths, duplicate_groups)
    /\ pc' = "done"
    /\ UNCHANGED <<fingerprints, similarity_threshold, duplicate_groups, caller_map, prior>>
    /\ UNCHANGED not_cluster_vars

Remember(kind) ==
    [kind |-> kind, similarity_threshold |-> similarity_threshold,
     duplicate_groups |-> duplicate_groups]

\* The caller calls again with the same dict and threshold.
CallAgain ==
    /\ pc = "done"
    /\ prior.kind = "none"
    /\ prior' = Remember("repeat")
    /\ duplicate_groups' =
           find_duplicates_by_fingerprints(fingerprints, similarity_threshold)
    /\ pc' = "grouped"
    /\ unique_files' = <<>>
    /\ UNCHANGED <<fingerprints, similarity_threshold, caller_map>>
    /\ UNCHANGED not_cluster_vars

Swap(s, i) == [s EXCEPT ![i] = s[i + 1], ![i + 1] = s[i]]

\* The caller builds a dict with the same pairs, two neighbours exchanged,
\* and calls with it.
CallReordered ==
    /\ pc = "done"
    /\ prior.kind = "none"
    /\ \E i \in 1..(Len(fingerprints) - 1) :
           /\ fingerprints' = Swap(fingerprints, i)
           /\ caller_map' = Swap(fingerprints, i)
           /\ filepaths' = Keys(Swap(fingerprints, i))
           /\ duplicate_groups' =
                  find_duplicates_by_fingerprints(Swap(fingerprints, i),
                                                  similarity_threshold)
    /\ prior' = Remember("reordered")
    /\ pc' = "grouped"
    /\ unique_files' = <<>>
    /\ UNCHANGED <<similarity_threshold, stored, result>>
    /\ UNCHANGED <<compare_vars, organize_vars, server_vars>>

\* The caller calls with the same dict and another threshold.
CallWithThreshold ==
    /\ pc = "done"
    /\ prior.kind = "none"
    /\ \E t \in Thresholds \ {similarity_threshold} :
           /\ similarity_threshold' = t
           /\ duplicate_groups' = find_duplicates_by_fingerprints(fingerprints, t)
    /\ prior' = Remember("rethreshold")
    /\ pc' = "grouped"
    /\ unique_files' = <<>>
    /\ UNCHANGED <<fingerprints, caller_map>>
    /\ UNCHANGED not_cluster_vars

Next ==
    \/ FindDuplicates
    \/ GetUniqueFiles
    \/ CallAgain
    \/ CallReordered
    \/ CallWithThreshold

Spec == Init /\ [][Next]_vars

\* One call of each function.
NextOnce ==
    \/ FindDuplicates
    \/ GetUniqueFiles

\* The caller of the prefix buckets.
InitPrefix == InitWith(PrefixFingerprints, PrefixThresholds)

SpecPrefix == InitPrefix /\ [][NextOnce]_vars

\* The caller of the anchor loop.
InitAnchor == InitWith(AnchorFingerprints, Thresholds)

SpecAnchor == InitAnchor /\ [][NextOnce]_vars

\* The caller whose files fall into two prefix buckets.
InitBuckets == InitWith(BucketFingerprints, Thresholds)

SpecBuckets == InitBuckets /\ [][NextOnce]_vars

\* The callbacks a caller may supply: one that only observes, and those that
\* store a fingerprint under a key of the caller's dict during one call.
Callbacks ==
    {[at |-> 0, key |-> Files[1], val |-> None]} \cup
    [at : 1..Len(valid_fingerprints(fingerprints)),
     key : Range(Keys(fingerprints)),
     val : CallbackFingerprints]

\* duplicate_groups = self.find_duplicates_by_fingerprints(fingerprints, threshold,
\*                                                        progress_callback=callback)
FindDuplicatesWithCallback ==
    /\ pc = "start"
    /\ \E callback \in Callbacks :
           LET call == find_duplicates_with_callback(fingerprints, similarity_threshold,
                                                    callback)
           IN  /\ duplicate_groups' = call.groups
               /\ fingerprints' = call.fingerprints
    /\ pc' = "grouped"
    /\ UNCHANGED <<similarity_threshold, unique_files, caller_map, prior>>
    /\ UNCHANGED not_cluster_vars

\* The caller that supplies a progress callback or omits it.
InitCallback == InitOver(CallbackFingerprints)

NextCallback ==
    \/ FindDuplicates
    \/ FindDuplicatesWithCallback
    \/ GetUniqueFiles

SpecCallback == InitCallback /\ [][NextCallback]_vars

\* The AudioMetrics of the files of a dict, in the order of the dict.
metrics_of(fps) ==
    [i \in 1..Len(fps) |-> [filepath |-> fps[i].key, audio_fingerprint |-> fps[i].val]]

\* The caller keeps the groups of the prefix buckets and runs the pairwise
\* search over the same files in the same order with the same threshold.
FindAudioDuplicates ==
    /\ pc = "done"
    /\ prior' = Remember("bucketed")
    /\ duplicate_groups' =
           find_audio_duplicates(metrics_of(fingerprints), similarity_threshold)
    /\ pc' = "compared"
    /\ UNCHANGED <<fingerprints, similarity_threshold, unique_files, caller_map>>
    /\ UNCHANGED not_cluster_vars

InitPairwise == InitOver(PairwiseFingerprints)

NextPairwise ==
    \/ FindDuplicates
    \/ GetUniqueFiles
    \/ FindAudioDuplicates

SpecPairwise == InitPairwise /\ [][NextPairwise]_vars

\* The caller with an unchecked threshold: one call of each function, then a
\* direct comparison of the fingerprints of two entries of its dict.
InitConfig == InitWith(ConfigFingerprints, ConfigThresholds)

CompareEntries ==
    /\ pc = "done"
    /\ cpc = "idle"
    /\ \E i, j \in 1..Len(fingerprints) :
           /\ fp1' = fingerprints[i].val
           /\ fp2' = fingerprints[j].val
           /\ similarity' =
                  compare_audio_fingerprints(fingerprints[i].val, fingerprints[j].val)
    /\ cpc' = "returned"
    /\ UNCHANGED reverse_similarity
    /\ UNCHANGED not_compare_vars

NextConfig ==
    \/ FindDuplicates
    \/ GetUniqueFiles
    \/ CompareEntries

SpecConfig == InitConfig /\ [][NextConfig]_vars

----------------------------------------------------------------------------
(* comprehensive_duplicate_analysis(filepaths): fingerprints in bulk, the  *)
(* groups, the unique files, then the result dict.  The waveform and       *)
(* quality data of steps 3 and 5 are read from the files per group and     *)
(* enter the result under the keys of the groups.                          *)

\* results[str(filepath)] = self.generate_fingerprint_only(filepath), for
\* each entry of the list: a path listed again overwrites its own entry.
RECURSIVE generate_fingerprints_bulk(_, _, _)
generate_fingerprints_bulk(paths, yield, results) ==
    IF paths = <<>> THEN results
    ELSE generate_fingerprints_bulk(Tail(paths), yield,
             DictSet(results, Head(paths), yield[Head(paths)]))

\* sum(len(group) - 1 for group in duplicate_groups.values())
RECURSIVE total_duplicates(_)
total_duplicates(groups) ==
    IF groups = <<>> THEN 0
    ELSE (Len(Head(groups).val) - 1) + total_duplicates(Tail(groups))

\* len([f for f in fingerprints.values() if f])
successful(fps) == Len(SelectSeq(fps, LAMBDA e : Truthy(e.val)))

\* The result dict of lines 872-889; the division by len(filepaths) of line
\* 878 raises ZeroDivisionError for the empty list.
analysis_result(paths, fps, groups, uniques) ==
    IF Len(paths) = 0
    THEN [outcome |-> "raised", error |-> "ZeroDivisionError"]
    ELSE [outcome |-> "returned",
          success |-> TRUE,
          total_files |-> Len(paths),
          unique_files |-> Len(uniques),
          duplicate_groups |-> Len(groups),
          total_duplicates |-> total_duplicates(groups),
          fingerprint_success_rate |-> Ratio(successful(fps) * 100, Len(paths)),
          unique_file_paths |-> uniques,
          duplicate_groups_data |-> Keys(groups),
          quality_comparisons |-> Keys(groups)]

PathLists(n) == [1..n -> AnalysisPaths]

InitAnalysis ==
    /\ \E n \in 0..MaxPaths : filepaths \in PathLists(n)
    /\ stored \in [AnalysisPaths -> AnalysisFingerprints]
    /\ result = NoResult
    /\ fingerprints = <<>>
    /\ similarity_threshold = DefaultThreshold
    /\ duplicate_groups = <<>>
    /\ unique_files = <<>>
    /\ pc = "files"
    /\ caller_map = <<>>
    /\ prior = NoPrior
    /\ CompareIdle
    /\ OrganizeIdle
    /\ ServerIdle

\* Step 1: fingerprints = self.generate_fingerprints_bulk(filepaths, ..)
GenerateFingerprintsBulk ==
    /\ pc = "files"
    /\ fingerprints' = generate_fingerprints_bulk(filepaths, stored, <<>>)
    /\ caller_map' = generate_fingerprints_bulk(filepaths, stored, <<>>)
    /\ pc' = "start"
    /\ UNCHANGED <<similarity_threshold, duplicate_groups, unique_files, prior>>
    /\ UNCHANGED <<compare_vars, analysis_vars, organize_vars, server_vars>>

\* Lines 870-897: the counts are taken and the result is returned, or the
\* success rate raises.
ReturnResult ==
    /\ pc = "done"
    /\ result = NoResult
    /\ result' = analysis_result(filepaths, fingerprints, duplicate_groups, unique_files)
    /\ pc' = IF Len(filepaths) = 0 THEN "raised" ELSE "returned"
    /\ UNCHANGED <<fingerprints, similarity_threshold, duplicate_groups,
                   unique_files, caller_map, prior, filepaths, stored>>
    /\ UNCHANGED <<compare_vars, organize_vars, server_vars>>

NextAnalysis ==
    \/ GenerateFingerprintsBulk
    \/ FindDuplicates
    \/ GetUniqueFiles
    \/ ReturnResult

SpecAnalysis == InitAnalysis /\ [][NextAnalysis]_vars

----------------------------------------------------------------------------
(* BeatOrganizer (src/beat_organizer.py): the plan and the moves of        *)
(* organize_files.  A directory is a record of its root, its area under    *)
(* the root and its sub-folder; a file path is a directory, a stem and a   *)
(* suffix, the stem and the suffix being sequences of characters.          *)

UpperLetters == <<"A", "B", "C", "D", "E", "F", "G", "H", "I", "J", "K", "L", "M",
                  "N", "O", "P", "Q", "R", "S", "T", "U", "V", "W", "X", "Y", "Z">>
LowerLetters == <<"a", "b", "c", "d", "e", "f", "g", "h", "i", "j", "k", "l", "m",
                  "n", "o", "p", "q", "r", "s", "t", "u", "v", "w", "x", "y", "z">>

\* str.lower() and str.upper(), character by character.
lower(s) ==
    [i \in 1..Len(s) |->
        IF \E k \in 1..26 : UpperLetters[k] = s[i]
        THEN LowerLetters[CHOOSE k \in 1..26 : UpperLetters[k] = s[i]]
        ELSE s[i]]

upper(s) ==
    [i \in 1..Len(s) |->
        IF \E k \in 1..26 : LowerLetters[k] = s[i]
        THEN UpperLetters[CHOOSE k \in 1..26 : LowerLetters[k] = s[i]]
        ELSE s[i]]

\* str.replace(old, new) for a single character old.
replace(s, old, new) == [i \in 1..Len(s) |-> IF s[i] = old THEN new ELSE s[i]]

\* str.replace('.', '')
without(s, c) == SelectSeq(s, LAMBDA x : x # c)

DecimalDigits == {"0", "1", "2", "3", "4", "5", "6", "7", "8", "9"}

\* Length of the run of digits that ends s (what \d+$ matches, if not 0).
RECURSIVE TrailingDigits(_)
TrailingDigits(s) ==
    IF s = <<>> \/ s[Len(s)] \notin DecimalDigits THEN 0
    ELSE 1 + TrailingDigits(SubSeq(s, 1, Len(s) - 1))

DropLast(s, n) == SubSeq(s, 1, Len(s) - n)

\* The k-th character from the end of s, "" if there is none.
FromEnd(s, k) == IF k \in 1..Len(s) THEN s[Len(s) - k + 1] ELSE ""

EndsWith(s, suffix) ==
    /\ Len(s) >= Len(suffix)
    /\ SubSeq(s, Len(s) - Len(suffix) + 1, Len(s)) = suffix

\* re.sub(r'v\d+$', '', name)
sub_v_digits(name) ==
    LET n == TrailingDigits(name)
    IN  IF n >= 1 /\ FromEnd(name, n + 1) = "v" THEN DropLast(name, n + 1) ELSE name

\* re.sub(r'_v\d+$', '', name)
sub_underscore_v_digits(name) ==
    LET n == TrailingDigits(name)
    IN  IF n >= 1 /\ FromEnd(name, n + 1) = "v" /\ FromEnd(name, n + 2) = "_"
        THEN DropLast(name, n + 2) ELSE name

\* re.sub(r'\(v\d+\)$', '', name)
sub_paren_v_digits(name) ==
    LET inner == DropLast(name, 1)
        n == TrailingDigits(inner)
    IN  IF /\ FromEnd(name, 1) = ")"
           /\ n >= 1
           /\ FromEnd(inner, n + 1) = "v"
           /\ FromEnd(inner, n + 2) = "("
        THEN DropLast(inner, n + 2) ELSE name

\* re.sub(r'\d+$', '', name)
sub_digits(name) == DropLast(name, TrailingDigits(name))

\* re.sub(r'_\d+$', '', name)
sub_underscore_digits(name) ==
    LET n == TrailingDigits(name)
    IN  IF n >= 1 /\ FromEnd(name, n + 1) = "_" THEN DropLast(name, n + 1) ELSE name

\* re.sub of a literal that must end the name.
sub_literal(name, literal) ==
    IF EndsWith(name, literal) THEN DropLast(name, Len(literal)) ELSE name

\* str.strip() for the blank.
RECURSIVE strip(_)
strip(s) ==
    IF s # <<>> /\ s[1] = " " THEN strip(Tail(s))
    ELSE IF s # <<>> /\ s[Len(s)] = " " THEN strip(DropLast(s, 1))
    ELSE s

\* _extract_base_name: the stem in lower case, the eight patterns removed
\* one after the other in the order of the list, then strip().
_extract_base_name(filename) ==
    LET n0 == lower(filename.stem)
        n1 == sub_v_digits(n0)
        n2 == sub_underscore_v_digits(n1)
        n3 == sub_paren_v_digits(n2)
        n4 == sub_digits(n3)
        n5 == sub_underscore_digits(n4)
        n6 == sub_literal(n5, <<"(", "r", "e", "m", "i", "x", ")">>)
        n7 == sub_literal(n6, <<"(", "f", "i", "n", "a", "l", ")">>)
        n8 == sub_literal(n7, <<"_", "f", "i", "n", "a", "l">>)
    IN  strip(n8)

\* defaultdict(list): d[k].append(x)
DictAppend(d, k, x) ==
    LET i == KeyIndex(d, k)
    IN  IF i = 0 THEN Append(d, [key |-> k, val |-> <<x>>])
        ELSE [d EXCEPT ![i].val = Append(@, x)]

\* _analyze_file: the AudioFile of a file with this path, size and content
\* hash ("" when the hash could not be computed).
_analyze_file(filepath, filesize, file_hash) ==
    [filepath |-> filepath,
     filename |-> [stem |-> filepath.stem, suffix |-> filepath.suffix],
     filesize |-> filesize,
     format |-> lower(filepath.suffix),
     file_hash |-> file_hash]

RECURSIVE hash_groups(_, _)
hash_groups(files, acc) ==
    IF files = <<>> THEN acc
    ELSE hash_groups(Tail(files),
             IF Head(files).file_hash # ""
             THEN DictAppend(acc, Head(files).file_hash, Head(files))
             ELSE acc)

\* _find_duplicates_original: the groups of one hash with more than one
\* file; the key i stands for the label f"duplicate_{i+1}" of the i-th hash
\* (counting from 1 here).
_find_duplicates_original(files) ==
    LET groups == hash_groups(files, <<>>)
        labelled == [i \in 1..Len(groups) |-> [key |-> i, val |-> groups[i].val]]
    IN  SelectSeq(labelled, LAMBDA e : Len(e.val) > 1)

\* The fallback of _find_duplicates_from_files: duplicates[file_hash].append(..)
\* for every file, then the groups of more than one file under their hash.
RECURSIVE all_hash_groups(_, _)
all_hash_groups(files, acc) ==
    IF files = <<>> THEN acc
    ELSE all_hash_groups(Tail(files),
                         DictAppend(acc, Head(files).file_hash, Head(files)))

hash_fallback(files) ==
    SelectSeq(all_hash_groups(files, <<>>), LAMBDA e : Len(e.val) > 1)

\* The fingerprint _find_duplicates_from_files finds for a file: the one
\* provided under its path, else the one cached in the metrics database.
fingerprint_for(audio_file, provided, cached) ==
    IF provided # <<>> /\ KeyIndex(provided, audio_file.filepath) # 0
    THEN provided[KeyIndex(provided, audio_file.filepath)].val
    ELSE IF KeyIndex(cached, audio_file.filepath) # 0
              /\ Truthy(cached[KeyIndex(cached, audio_file.filepath)].val)
    THEN cached[KeyIndex(cached, audio_file.filepath)].val
    ELSE None

RECURSIVE metrics_list(_, _, _)
metrics_list(files, provided, cached) ==
    IF files = <<>> THEN <<>>
    ELSE LET fingerprint == fingerprint_for(Head(files), provided, cached)
         IN  (IF Truthy(fingerprint)
              THEN <<[filepath |-> Head(files).filepath,
                      audio_fingerprint |-> fingerprint]>>
              ELSE <<>>) \o metrics_list(Tail(files), provided, cached)

\* The threshold _find_duplicates_from_files passes to find_audio_duplicates.
FingerprintThreshold == 99

\* Convert back: each AudioMetrics replaced by the first AudioFile of its
\* path; groups of more than one file are kept.
converted_duplicates(files, groups) ==
    LET file_of(m) ==
            files[CHOOSE i \in 1..Len(files) :
                      /\ files[i].filepath = m.filepath
                      /\ \A j \in 1..(i - 1) : files[j].filepath # m.filepath]
        converted == [g \in 1..Len(groups) |->
                         [key |-> groups[g].key,
                          val |-> [k \in 1..Len(groups[g].val) |->
                                       file_of(groups[g].val[k])]]]
    IN  SelectSeq(converted, LAMBDA e : Len(e.val) > 1)

\* _find_duplicates_from_files: the groups returned and the branch taken.
_find_duplicates_from_files(files, enable_metrics, provided, cached) ==
    LET metrics == metrics_list(files, provided, cached)
    IN  IF ~enable_metrics
        THEN [duplicates |-> hash_fallback(files), branch |-> "metrics_disabled"]
        ELSE IF metrics = <<>>
        THEN [duplicates |-> hash_fallback(files), branch |-> "no_fingerprint"]
        ELSE [duplicates |->
                  converted_duplicates(files,
                      find_audio_duplicates(metrics, FingerprintThreshold)),
              branch |-> "fingerprints"]

RECURSIVE SeqSum(_)
SeqSum(s) == IF s = <<>> THEN 0 ELSE Head(s) + SeqSum(Tail(s))

SeqMax(s) == CHOOSE x \in Range(s) : \A y \in Range(s) : y <= x
SeqMin(s) == CHOOSE x \in Range(s) : \A y \in Range(s) : x <= y

\* _validate_family: avg_size > 0 and size_range / avg_size <= 0.5, with
\* avg_size = sum / len, stated without the division.
_validate_family(files) ==
    IF Len(files) < 2 THEN FALSE
    ELSE LET sizes == [i \in 1..Len(files) |-> files[i].filesize]
         IN  /\ SeqSum(sizes) > 0
             /\ 2 * (SeqMax(sizes) - SeqMin(sizes)) * Len(sizes) <= SeqSum(sizes)

RECURSIVE base_groups(_, _)
base_groups(files, acc) ==
    IF files = <<>> THEN acc
    ELSE base_groups(Tail(files),
             DictAppend(acc, _extract_base_name(Head(files).filename), Head(files)))

find_version_families(files) ==
    SelectSeq(base_groups(files, <<>>),
              LAMBDA e : Len(e.val) > 1 /\ _validate_family(e.val))

\* Variant: every member of a duplicate group is marked (for file in files).
true_duplicate_files_All(duplicates) ==
    UNION {{duplicates[i].val[k].filepath : k \in 1..Len(duplicates[i].val)} :
               i \in 1..Len(duplicates)}

\* for file in files[1:] of every duplicate group: true_duplicate_files.add(file.filepath)
true_duplicate_files(duplicates) ==
    UNION {{duplicates[i].val[k].filepath : k \in 2..Len(duplicates[i].val)} :
               i \in 1..Len(duplicates)}

version_files(version_families, true_duplicates) ==
    UNION {{version_families[i].val[k].filepath : k \in 1..Len(version_families[i].val)} :
               i \in 1..Len(version_families)} \ true_duplicates

\* The first family that holds the file.
FamilyOf(version_families, file) ==
    LET holding == {i \in 1..Len(version_families) : file \in Range(version_families[i].val)}
    IN  IF holding = {} THEN 0
        ELSE CHOOSE i \in holding : \A j \in holding : i <= j

\* Lines 422-445: the loop that fills move_plan.
RECURSIVE plan_files(_, _, _, _, _)
plan_files(files, true_duplicates, versions, version_families, plan) ==
    IF files = <<>> THEN plan
    ELSE LET file == Head(files)
             k == FamilyOf(version_families, file)
             format_folder == without(upper(file.format), ".")
         IN  plan_files(Tail(files), true_duplicates, versions, version_families,
                 IF file.filepath \in true_duplicates
                 THEN [plan EXCEPT !.duplicates = Append(@, file)]
                 ELSE IF file.filepath \in versions
                 THEN (IF k = 0 THEN plan
                       ELSE [plan EXCEPT !.version_families =
                                DictAppend(@, version_families[k].key, file)])
                 ELSE [plan EXCEPT !.organized = DictAppend(@, format_folder, file)])

\* Lines 398-445: the plan of organize_files.
plan_of(files, detect) ==
    LET detecting == detect /\ \E i \in 1..Len(files) : files[i].file_hash # ""
        duplicates == IF detecting THEN _find_duplicates_original(files) ELSE <<>>
        version_families == IF detecting THEN find_version_families(files) ELSE <<>>
        true_duplicates == true_duplicate_files(duplicates)
    IN  plan_files(files, true_duplicates,
                   version_files(version_families, true_duplicates),
                   version_families, NoPlan)

Dir(root, area, sub) == [root |-> root, area |-> area, sub |-> sub]

\* output_dir and the three directories of lines 381-383.
OutputDir == Dir("out", "", <<>>)
organized_dir == Dir("out", "Organized_Beats", <<>>)
duplicates_dir == Dir("out", "Duplicates", <<>>)
versions_dir == Dir("out", "Versions_To_Review", <<>>)

\* d / name; joining the empty name gives d itself.
SubDir(d, name) == [d EXCEPT !.sub = name]

\* mkdir(parents=True, exist_ok=True)
mkdir_parents(dirs, d) ==
    dirs \cup {Dir(d.root, "", <<>>), Dir(d.root, d.area, <<>>), d}

\* Path.exists() of a file path.
exists(files, path) == \E e \in files : e.path = path

\* str(counter)
RECURSIVE decimal(_)
decimal(n) ==
    LET digit == <<"0", "1", "2", "3", "4", "5", "6", "7", "8", "9">>[(n % 10) + 1]
    IN  IF n < 10 THEN <<digit>> ELSE decimal(n \div 10) \o <<digit>>

\* The conflict loop: dir / file.filename while counter is 0, then
\* dir / f"{stem}{tag}{counter}{suffix}" until the path is free.
RECURSIVE new_path(_, _, _, _, _)
new_path(files, dir, file, tag, counter) ==
    LET path == IF counter = 0
                THEN [dir |-> dir, stem |-> file.filename.stem,
                      suffix |-> file.filename.suffix]
                ELSE [dir |-> dir,
                      stem |-> file.filepath.stem \o tag \o decimal(counter),
                      suffix |-> file.filepath.suffix]
    IN  IF exists(files, path) THEN new_path(files, dir, file, tag, counter + 1)
        ELSE path

\* shutil.move(str(file.filepath), str(new_path)) inside try: a source that
\* is not there raises, and the error is printed.
move(files, file, dir, tag) ==
    IF exists(files, file.filepath)
    THEN LET e == CHOOSE x \in files : x.path = file.filepath
         IN  (files \ {e}) \cup
                 {[path |-> new_path(files, dir, file, tag, 0), content |-> e.content]}
    ELSE files

RECURSIVE move_all(_, _, _, _)
move_all(files, list, dir, tag) ==
    IF list = <<>> THEN files
    ELSE move_all(move(files, Head(list), dir, tag), Tail(list), dir, tag)

\* Lines 477-495: for format_name, files in move_plan['organized'].items()
RECURSIVE move_organized(_, _)
move_organized(organized, disk) ==
    IF organized = <<>> THEN disk
    ELSE LET format_dir == SubDir(organized_dir, Head(organized).key)
         IN  move_organized(Tail(organized),
                 [files |-> move_all(disk.files, Head(organized).val, format_dir, <<"_">>),
                  dirs |-> disk.dirs \cup {format_dir}])

\* Lines 517-536: for family_name, files in move_plan['version_families'].items()
RECURSIVE move_versions(_, _)
move_versions(families, disk) ==
    IF families = <<>> THEN disk
    ELSE LET family_dir ==
                 SubDir(versions_dir,
                        replace(replace(Head(families).key, "/", "_"), "\\", "_"))
         IN  move_versions(Tail(families),
                 [files |-> move_all(disk.files, Head(families).val, family_dir,
                                     <<"_", "v">>),
                  dirs |-> mkdir_parents(disk.dirs, family_dir)])

\* Lines 466-539: the branch "if not dry_run".
execute_plan(plan, detect, disk) ==
    LET made == [files |-> disk.files,
                 dirs |-> mkdir_parents(disk.dirs, organized_dir)
                          \cup (IF detect /\ plan.duplicates # <<>>
                                THEN mkdir_parents({}, duplicates_dir) ELSE {})
                          \cup (IF plan.version_families # <<>>
                                THEN mkdir_parents({}, versions_dir) ELSE {})]
        organized == move_organized(plan.organized, made)
        deduplicated ==
            IF detect
            THEN [organized EXCEPT !.files =
                     move_all(@, plan.duplicates, duplicates_dir, <<"_", "d", "u", "p">>)]
            ELSE organized
    IN  move_versions(plan.version_families, deduplicated)

\* Variant: the directories are created before dry_run is looked at.
organize_files_MkdirFirst(files, dry, detect, disk) ==
    IF files = <<>> THEN [move_plan |-> NoPlan, disk |-> disk]
    ELSE LET plan == plan_of(files, detect)
             made == [disk EXCEPT !.dirs = mkdir_parents(@, organized_dir)]
         IN  [move_plan |-> plan,
              disk |-> IF dry THEN made ELSE execute_plan(plan, detect, made)]

\* organize_files(audio_files, output_dir, dry_run, detect_duplicates): the
\* plan it built and the file system it leaves.
organize_files(files, dry, detect, disk) ==
    IF files = <<>> THEN [move_plan |-> NoPlan, disk |-> disk]
    ELSE LET plan == plan_of(files, detect)
         IN  [move_plan |-> plan,
              disk |-> IF dry THEN disk ELSE execute_plan(plan, detect, disk)]

\* Longest list of scanned files.
MaxAudioFiles == 3

InDir == Dir("in", "", <<>>)
InSub == Dir("in", "sub", <<>>)

FilePath(dir, stem, suffix) == [dir |-> dir, stem |-> stem, suffix |-> suffix]

Wav == <<".", "w", "a", "v">>
WavUpper == <<".", "W", "A", "V">>
Mp3 == <<".", "m", "p", "3">>
Beat == <<"b", "e", "a", "t">>

\* The files a scan may find: two of one content and one name in two
\* directories, a numbered version of similar size, a version without hash,
\* and three named kick of which two have no hash and one another size.
ScannedFiles ==
    { _analyze_file(FilePath(InDir, Beat, Wav), 2, "h1"),
      _analyze_file(FilePath(InSub, Beat, Wav), 2, "h1"),
      _analyze_file(FilePath(InDir, Beat \o <<"2">>, Wav), 3, "h2"),
      _analyze_file(FilePath(InDir, Beat \o <<"_", "v", "2">>, Mp3), 3, ""),
      _analyze_file(FilePath(InDir, <<"K", "i", "c", "k">>, WavUpper), 0, ""),
      _analyze_file(FilePath(InSub, <<"K", "i", "c", "k">>, WavUpper), 0, ""),
      _analyze_file(FilePath(InSub, <<"k", "i", "c", "k">>, Wav), 9, "h3") }

\* The lists scan_directory may return: no path twice.
ScanLists(n) ==
    {s \in [1..n -> ScannedFiles] :
        \A i, j \in 1..n : i # j => s[i].filepath # s[j].filepath}

\* What an earlier run may have left in the output directory.
Leftover ==
    LET path == FilePath(SubDir(organized_dir, <<"W", "A", "V">>), Beat, Wav)
    IN  [path |-> path, content |-> path]

OnDisk(files) == {[path |-> files[i].filepath, content |-> files[i].filepath] :
                      i \in 1..Len(files)}

InitOrganize ==
    /\ \E n \in 0..MaxAudioFiles : audio_files \in ScanLists(n)
    /\ args_execute \in BOOLEAN
    /\ dry_run = TRUE
    /\ detect_duplicates = TRUE
    /\ \E left \in BOOLEAN :
           /\ disk_files = OnDisk(audio_files) \cup (IF left THEN {Leftover} ELSE {})
           /\ disk_dirs = {InDir, InSub} \cup
                  (IF left THEN mkdir_parents({}, Leftover.path.dir) ELSE {})
    /\ move_plan = NoPlan
    /\ opc = "cli"
    /\ fingerprints = <<>>
    /\ similarity_threshold = DefaultThreshold
    /\ duplicate_groups = <<>>
    /\ unique_files = <<>>
    /\ pc = "idle"
    /\ caller_map = <<>>
    /\ prior = NoPrior
    /\ filepaths = <<>>
    /\ AnalysisIdle
    /\ CompareIdle
    /\ ServerIdle

\* main, command organize: without scanned files it returns; else it makes
\* the output directory and passes dry_run = not args.execute.
Main ==
    /\ opc = "cli"
    /\ IF audio_files = <<>>
       THEN /\ opc' = "exit"
            /\ UNCHANGED <<dry_run, detect_duplicates, disk_dirs>>
       ELSE /\ disk_dirs' = mkdir_parents(disk_dirs, OutputDir)
            /\ dry_run' = ~args_execute
            /\ detect_duplicates' = TRUE
            /\ opc' = "call"
    /\ UNCHANGED <<audio_files, args_execute, disk_files, move_plan>>
    /\ UNCHANGED not_organize_vars

\* A caller of the method itself chooses both flags.
DirectCall ==
    /\ opc = "cli"
    /\ dry_run' \in BOOLEAN
    /\ detect_duplicates' \in BOOLEAN
    /\ opc' = "call"
    /\ UNCHANGED <<audio_files, args_execute, disk_files, disk_dirs, move_plan>>
    /\ UNCHANGED not_organize_vars

OrganizeFiles ==
    /\ opc = "call"
    /\ LET done == organize_files(audio_files, dry_run, detect_duplicates,
                                  [files |-> disk_files, dirs |-> disk_dirs])
       IN  /\ move_plan' = done.move_plan
           /\ disk_files' = done.disk.files
           /\ disk_dirs' = done.disk.dirs
    /\ opc' = "organized"
    /\ UNCHANGED <<audio_files, args_execute, dry_run, detect_duplicates>>
    /\ UNCHANGED not_organize_vars

NextOrganize ==
    \/ Main
    \/ DirectCall
    \/ OrganizeFiles

SpecOrganize == InitOrganize /\ [][NextOrganize]_vars

----------------------------------------------------------------------------
(* The callers of the duplicate search over scanned files. *)

\* The dicts of fingerprints a caller may provide for its files, and what
\* the metrics database may hold for them.
RECURSIVE ProvidedFingerprints(_)
ProvidedFingerprints(files) ==
    IF files = <<>> THEN {<<>>}
    ELSE LET rest == ProvidedFingerprints(Tail(files))
         IN  rest \cup {<<[key |-> Head(files).filepath, val |-> v]>> \o r :
                           r \in rest, v \in {None, FpA, FpY}}

CachedFingerprints ==
    {<<>>} \cup {<<[key |-> audio_files[i].filepath, val |-> FpA]>> :
                    i \in 1..Len(audio_files)}

\* duplicates = self._find_duplicates_original(audio_files)
FindDuplicatesOriginal ==
    /\ opc = "cli"
    /\ duplicate_groups' = _find_duplicates_original(audio_files)
    /\ opc' = "original"
    /\ UNCHANGED <<fingerprints, similarity_threshold, unique_files, pc, caller_map,
                   prior>>
    /\ UNCHANGED <<audio_files, args_execute, dry_run, detect_duplicates, disk_files,
                   disk_dirs, move_plan>>
    /\ UNCHANGED <<compare_vars, analysis_vars, server_vars>>

\* duplicates = organizer._find_duplicates_from_files(audio_files, fingerprints)
\* of an organizer with or without metrics.
FindDuplicatesFromFiles ==
    /\ opc = "cli"
    /\ \E enable_metrics \in BOOLEAN, provided \in ProvidedFingerprints(audio_files),
          cached \in CachedFingerprints :
           LET call == _find_duplicates_from_files(audio_files, enable_metrics,
                                                   provided, cached)
           IN  /\ duplicate_groups' = call.duplicates
               /\ fingerprints' = provided
               /\ opc' = call.branch
    /\ UNCHANGED <<similarity_threshold, unique_files, pc, caller_map, prior>>
    /\ UNCHANGED <<audio_files, args_execute, dry_run, detect_duplicates, disk_files,
                   disk_dirs, move_plan>>
    /\ UNCHANGED <<compare_vars, analysis_vars, server_vars>>

NextDuplicates ==
    \/ FindDuplicatesOriginal
    \/ FindDuplicatesFromFiles

\* A caller that holds the list a scan returned.
InitDuplicates ==
    /\ InitOrganize
    /\ ~args_execute
    /\ Leftover \notin disk_files

SpecDuplicates == InitDuplicates /\ [][NextDuplicates]_vars

----------------------------------------------------------------------------
(* The Flask GUI (src/beat_organizer_gui.py): POST /api/scan with its      *)
(* background_scan thread and POST /api/scan/cancel, all working on the    *)
(* module-level dict scan_progress.  The server answers requests in        *)
(* threads of their own, so handlers and scan threads interleave at every  *)
(* read and write of the dict.                                             *)

\* Scans started during one run of the server, and the most audio files a
\* scanned directory holds.
MaxScans == 2
MaxFound == 1

\* Lines 167-175: what the handler stores before it starts the thread.
ScanStarted == [scanning |-> TRUE, progress |-> 0, error |-> None, result |-> None]

\* Lines 403-409: what cancel_scan stores.
ScanCancelled ==
    [scanning |-> FALSE, progress |-> 0, error |-> Text("Scan was cancelled"), result |-> None]

\* The locals of a background_scan thread that was just started.
NewThread ==
    [pc |-> "start", file_count |-> 0, total_to_analyze |-> 0, analyzed_files |-> 0,
     i |-> 0]

Threads == 1..Len(scan_threads)

\* The thread has neither returned nor finished nor failed.
Running(t) == scan_threads[t].pc \notin {"returned", "complete", "failed"}

\* The thread t moves to position to, with the locals changed as given.
Goto(t, to, changed) ==
    scan_threads' = [scan_threads EXCEPT ![t] = [changed EXCEPT !.pc = to]]

SetProgress(p) == scan_progress' = [scan_progress EXCEPT !.progress = p]

\* Lines 152-153: a scan is in progress, the request is answered with 409.
ScanRejected ==
    /\ scan_progress.scanning
    /\ scan_response' = 409
    /\ UNCHANGED <<scan_progress, scan_threads, scan_handlers>>
    /\ UNCHANGED not_gui_vars

\* Lines 152-159: no scan is in progress but the directory does not exist.
ScanInvalid ==
    /\ ~scan_progress.scanning
    /\ scan_response' = 400
    /\ UNCHANGED <<scan_progress, scan_threads, scan_handlers>>
    /\ UNCHANGED not_gui_vars

\* Lines 152-164: no scan is in progress and the directory exists; the
\* handler goes on to line 167.
ScanChecked ==
    /\ ~scan_progress.scanning
    /\ Len(scan_threads) + scan_handlers < MaxScans
    /\ scan_handlers' = scan_handlers + 1
    /\ UNCHANGED <<scan_progress, scan_threads, scan_response>>
    /\ UNCHANGED not_gui_vars

\* Lines 167-387: the handler resets scan_progress, starts the thread and
\* answers.
ScanStart ==
    /\ scan_handlers > 0
    /\ scan_progress' = ScanStarted
    /\ scan_threads' = Append(scan_threads, NewThread)
    /\ scan_handlers' = scan_handlers - 1
    /\ scan_response' = 200
    /\ UNCHANGED not_gui_vars

\* Lines 398-410: POST /api/scan/cancel.
GuiCancelScan ==
    /\ scan_progress' = ScanCancelled
    /\ UNCHANGED <<scan_threads, scan_handlers, scan_response>>
    /\ UNCHANGED not_gui_vars

\* Lines 184-186.
Phase1(t) ==
    /\ scan_threads[t].pc = "start"
    /\ SetProgress(5)
    /\ Goto(t, "discover", scan_threads[t])

\* Lines 189-196: scan_directory returns the files of the directory.
Discover(t) ==
    /\ scan_threads[t].pc = "discover"
    /\ \E n \in 0..MaxFound :
           Goto(t, "check1", [scan_threads[t] EXCEPT !.file_count = n])
    /\ SetProgress(15)

\* Lines 198-206: return when cancelled or when no file was found.
Check1(t) ==
    /\ scan_threads[t].pc = "check1"
    /\ IF ~scan_progress.scanning \/ scan_threads[t].file_count = 0
       THEN /\ Goto(t, "returned", scan_threads[t])
            /\ UNCHANGED scan_progress
       ELSE /\ Goto(t, "fingerprint", [scan_threads[t] EXCEPT !.i = 0])
            /\ SetProgress(20)

\* Lines 208-215: generate_fingerprints_bulk calls fingerprint_progress(i,
\* total, name) before each file.
Fingerprint(t) ==
    LET th == scan_threads[t]
    IN  /\ th.pc = "fingerprint"
        /\ IF th.i < th.file_count
           THEN /\ Goto(t, "fingerprint", [th EXCEPT !.i = th.i + 1])
                /\ IF scan_progress.scanning
                   THEN SetProgress(20 + ((th.i * 25) \div th.file_count))
                   ELSE UNCHANGED scan_progress
           ELSE /\ Goto(t, "check2", th)
                /\ UNCHANGED scan_progress

\* Lines 218-226.
Check2(t) ==
    /\ scan_threads[t].pc = "check2"
    /\ IF ~scan_progress.scanning
       THEN /\ Goto(t, "returned", scan_threads[t])
            /\ UNCHANGED scan_progress
       ELSE /\ Goto(t, "duplicates", scan_threads[t])
            /\ SetProgress(50)

\* Lines 229-234: _find_duplicates_from_files; the unique files are one of
\* each group and every file outside the groups.
Duplicates(t) ==
    /\ scan_threads[t].pc = "duplicates"
    /\ \E n \in 1..scan_threads[t].file_count :
           Goto(t, "check3", [scan_threads[t] EXCEPT !.total_to_analyze = n])
    /\ SetProgress(65)

\* Lines 236-264.
Check3(t) ==
    /\ scan_threads[t].pc = "check3"
    /\ Goto(t, IF scan_progress.scanning THEN "analyze" ELSE "returned",
            [scan_threads[t] EXCEPT !.i = 0, !.analyzed_files = 0])
    /\ UNCHANGED scan_progress

\* Lines 266-286: one round of the analysis loop, or its end.  A file whose
\* analysis returns nothing is not appended to analyzed_files.
Analyze(t) ==
    LET th == scan_threads[t]
    IN  /\ th.pc = "analyze"
        /\ IF th.i < th.total_to_analyze
           THEN IF ~scan_progress.scanning
                THEN /\ Goto(t, "returned", th)
                     /\ UNCHANGED scan_progress
                ELSE /\ \E kept \in {0, 1} :
                            Goto(t, "analyze",
                                 [th EXCEPT !.i = th.i + 1,
                                            !.analyzed_files = th.analyzed_files + kept])
                     /\ SetProgress(65 + ((th.i * 25) \div th.total_to_analyze))
           ELSE /\ Goto(t, "prepare", [th EXCEPT !.i = 0])
                /\ SetProgress(95)

\* Lines 307-339: one round of the loop over analyzed_files, which a
\* cancellation leaves with break, or its end.
Prepare(t) ==
    LET th == scan_threads[t]
    IN  /\ th.pc = "prepare"
        /\ IF th.i < th.analyzed_files /\ scan_progress.scanning
           THEN /\ Goto(t, "prepare", [th EXCEPT !.i = th.i + 1])
                /\ SetProgress(85 + ((th.i * 10) \div th.analyzed_files))
           ELSE /\ Goto(t, "publish", th)
                /\ SetProgress(95)

\* Lines 342-368: the result is stored; t stands for the result of scan t.
Publish(t) ==
    /\ scan_threads[t].pc = "publish"
    /\ scan_progress' = [scan_progress EXCEPT !.scanning = FALSE, !.progress = 100,
                                              !.result = ResultOf(t)]
    /\ Goto(t, "complete", scan_threads[t])

\* Lines 370-376: an exception of scan_directory, generate_fingerprints_bulk,
\* _find_duplicates_from_files or of the preparation of the result.
Fail(t) ==
    /\ scan_threads[t].pc \in {"discover", "fingerprint", "duplicates", "prepare"}
    /\ scan_progress' = [scan_progress EXCEPT !.scanning = FALSE, !.error = Text("failed")]
    /\ Goto(t, "failed", scan_threads[t])

\* A step of the thread t that is not an exception.
Proceed(t) ==
    /\ t \in Threads
    /\ \/ Phase1(t)
       \/ Discover(t)
       \/ Check1(t)
       \/ Fingerprint(t)
       \/ Check2(t)
       \/ Duplicates(t)
       \/ Check3(t)
       \/ Analyze(t)
       \/ Prepare(t)
       \/ Publish(t)
    /\ UNCHANGED <<scan_handlers, scan_response>>
    /\ UNCHANGED not_gui_vars

\* The thread t ends in its exception handler.
Raise(t) ==
    /\ t \in Threads
    /\ Fail(t)
    /\ UNCHANGED <<scan_handlers, scan_response>>
    /\ UNCHANGED not_gui_vars

background_scan(t) == Proceed(t) \/ Raise(t)

InitServer ==
    /\ GuiIdle
    /\ ApiIdle
    /\ fingerprints = <<>>
    /\ similarity_threshold = DefaultThreshold
    /\ duplicate_groups = <<>>
    /\ unique_files = <<>>
    /\ pc = "idle"
    /\ caller_map = <<>>
    /\ prior = NoPrior
    /\ filepaths = <<>>
    /\ AnalysisIdle
    /\ CompareIdle
    /\ OrganizeIdle

NextGui ==
    \/ ScanRejected
    \/ ScanInvalid
    \/ ScanChecked
    \/ ScanStart
    \/ GuiCancelScan
    \/ \E t \in 1..MaxScans : background_scan(t)

SpecGui == InitServer /\ [][NextGui]_vars

\* A started thread runs on: the interpreter schedules every thread, and
\* no step of background_scan waits for another thread.  Requests and
\* exceptions are not owed.
SpecGuiFair == SpecGui /\ \A t \in 1..MaxScans : WF_vars(Proceed(t))

----------------------------------------------------------------------------
(* The FastAPI server (src/beat_organizer_api_v2.py): TaskManager,         *)
(* POST /api/scan with background_scan_task and its progress queue, and    *)
(* POST /api/scan/cancel.  The coroutines run on one event loop: a step    *)
(* is the code between two awaits.  The scan itself runs in a worker       *)
(* thread and hands its progress over through the queue.                   *)

\* Tasks created during one run of the server, and progress callbacks one
\* scan makes.
MaxTasks == 2
MaxUpdates == 1

\* Lines 63-68: the TaskStatus create_task stores (of its fields
\* current_file, total_files and completed_files nothing depends).
NewTask == [status |-> "pending", progress |-> 0, result |-> None, error |-> None]

\* A background_scan_task that add_task has scheduled.
NewScanTask == [pc |-> "added", progress_queue |-> <<>>, processor |-> "none", sent |-> 0]

\* The message that ends the progress processor.
End == [end |-> TRUE]

TaskIds == 1..Len(tasks)

\* TaskManager.update_task_progress
update_task_progress(task, progress) ==
    [task EXCEPT !.progress = progress, !.status = "running"]

\* TaskManager.complete_task
complete_task(task, res) ==
    [task EXCEPT !.status = "completed", !.progress = 100, !.result = res]

\* TaskManager.fail_task
fail_task(task, error) == [task EXCEPT !.status = "failed", !.error = error]

\* Variant: the cancelled tasks are marked "stopped".
cancel_scan_Stopped(all) ==
    [t \in 1..Len(all) |->
        IF all[t].status \in {"running", "pending"}
        THEN [all[t] EXCEPT !.status = "stopped"]
        ELSE all[t]]

\* Lines 525-528 of cancel_scan.
cancel_scan(all) ==
    [t \in 1..Len(all) |->
        IF all[t].status \in {"running", "pending"}
        THEN [all[t] EXCEPT !.status = "cancelled"]
        ELSE all[t]]

\* Lines 196-213: POST /api/scan creates the task and schedules the scan.
StartScan ==
    /\ Len(tasks) < MaxTasks
    /\ tasks' = Append(tasks, NewTask)
    /\ scan_tasks' = Append(scan_tasks, NewScanTask)
    /\ UNCHANGED not_api_vars

\* Lines 219-248: background_scan_task makes the queue, starts the progress
\* processor and hands the scan to a worker thread.
BeginScan(t) ==
    /\ t \in TaskIds
    /\ scan_tasks[t].pc = "added"
    /\ scan_tasks' = [scan_tasks EXCEPT ![t].pc = "scanning",
                                        ![t].processor = "running"]
    /\ UNCHANGED tasks
    /\ UNCHANGED not_api_vars

\* Lines 224-236: the scan calls progress_callback, which queues an update.
ProgressCallback(t) ==
    /\ t \in TaskIds
    /\ scan_tasks[t].pc = "scanning"
    /\ scan_tasks[t].sent < MaxUpdates
    /\ scan_tasks' =
           [scan_tasks EXCEPT
               ![t].progress_queue = Append(@, [progress |-> 5 + scan_tasks[t].sent]),
               ![t].sent = @ + 1]
    /\ UNCHANGED tasks
    /\ UNCHANGED not_api_vars

\* Lines 244-251: the scan returns and the end message is queued.
ScanReturns(t) ==
    /\ t \in TaskIds
    /\ scan_tasks[t].pc = "scanning"
    /\ scan_tasks' = [scan_tasks EXCEPT ![t].progress_queue = Append(@, End),
                                        ![t].pc = "awaiting"]
    /\ UNCHANGED tasks
    /\ UNCHANGED not_api_vars

\* Lines 263-264: the scan raises and the task is failed.  The progress
\* processor is not stopped.
ScanRaises(t) ==
    /\ t \in TaskIds
    /\ scan_tasks[t].pc = "scanning"
    /\ tasks' = [tasks EXCEPT ![t] = fail_task(@, Text("error"))]
    /\ scan_tasks' = [scan_tasks EXCEPT ![t].pc = "failed"]
    /\ UNCHANGED not_api_vars

\* Lines 758-792: process_progress_updates takes one message off the queue.
ProcessUpdate(t) ==
    /\ t \in TaskIds
    /\ scan_tasks[t].processor = "running"
    /\ scan_tasks[t].progress_queue # <<>>
    /\ LET update == Head(scan_tasks[t].progress_queue)
       IN  IF update = End
           THEN /\ scan_tasks' = [scan_tasks EXCEPT ![t].progress_queue = Tail(@),
                                                    ![t].processor = "ended"]
                /\ UNCHANGED tasks
           ELSE /\ scan_tasks' = [scan_tasks EXCEPT ![t].progress_queue = Tail(@)]
                /\ tasks' = [tasks EXCEPT
                                ![t] = update_task_progress(@, update.progress)]
    /\ UNCHANGED not_api_vars

\* Lines 252-254: the processor has ended and the task is completed; t
\* stands for the result of scan t.
CompleteTask(t) ==
    /\ t \in TaskIds
    /\ scan_tasks[t].pc = "awaiting"
    /\ scan_tasks[t].processor = "ended"
    /\ tasks' = [tasks EXCEPT ![t] = complete_task(@, ResultOf(t))]
    /\ scan_tasks' = [scan_tasks EXCEPT ![t].pc = "done"]
    /\ UNCHANGED not_api_vars

\* Lines 520-533: POST /api/scan/cancel.
ApiCancelScan ==
    /\ tasks' = cancel_scan(tasks)
    /\ UNCHANGED scan_tasks
    /\ UNCHANGED not_api_vars

NextApi ==
    \/ StartScan
    \/ ApiCancelScan
    \/ \E t \in 1..MaxTasks :
           \/ BeginScan(t)
           \/ ProgressCallback(t)
           \/ ScanReturns(t)
           \/ ScanRaises(t)
           \/ ProcessUpdate(t)
           \/ CompleteTask(t)

SpecApi == InitServer /\ [][NextApi]_vars

----------------------------------------------------------------------------
(* The comparison caller: compare_audio_fingerprints(fp1, fp2), then the   *)
(* same call with the arguments exchanged.                                 *)

InitCompare ==
    /\ fp1 \in CompareArgs
    /\ fp2 \in CompareArgs
    /\ similarity = Sim0
    /\ reverse_similarity = Sim0
    /\ cpc = "args"
    /\ fingerprints = <<>>
    /\ similarity_threshold = 98
    /\ duplicate_groups = <<>>
    /\ unique_files = <<>>
    /\ pc = "idle"
    /\ caller_map = <<>>
    /\ prior = NoPrior
    /\ filepaths = <<>>
    /\ AnalysisIdle
    /\ OrganizeIdle
    /\ ServerIdle

Compare ==
    /\ cpc = "args"
    /\ similarity' = compare_audio_fingerprints(fp1, fp2)
    /\ cpc' = "returned"
    /\ UNCHANGED <<fp1, fp2, reverse_similarity>>
    /\ UNCHANGED not_compare_vars

CompareReversed ==
    /\ cpc = "returned"
    /\ reverse_similarity' = compare_audio_fingerprints(fp2, fp1)
    /\ cpc' = "reversed"
    /\ UNCHANGED <<fp1, fp2, similarity>>
    /\ UNCHANGED not_compare_vars

NextCompare ==
    \/ Compare
    \/ CompareReversed

SpecCompare == InitCompare /\ [][NextCompare]_vars

----------------------------------------------------------------------------
(* Vocabulary of the properties *)

FilePaths == [i \in 1..Len(fingerprints) |-> fingerprints[i].key]

\* The fingerprint the input dict gives to a file path.
FpOf(f) == fingerprints[KeyIndex(fingerprints, f)].val

\* The file paths carrying fingerprint fp, in iteration order.
FilesWith(fp) ==
    LET sel == SelectSeq(fingerprints, LAMBDA e : e.val = fp)
    IN  [i \in 1..Len(sel) |-> sel[i].key]

RECURSIVE AllMembers(_)
AllMembers(groups) ==
    IF groups = <<>> THEN <<>>
    ELSE Head(groups).val \o AllMembers(Tail(groups))

Occurrences(s, x) == Cardinality({i \in 1..Len(s) : s[i] = x})

\* A group all of whose members carry one fingerprint string / not so.
IsExactGroup(g) == \A m \in Range(g.val) : FpOf(m) = FpOf(g.val[1])
IsNearGroup(g) == ~IsExactGroup(g)

MemberSets(groups) == {Range(groups[i].val) : i \in 1..Len(groups)}

ExactMemberSets(groups) ==
    {Range(groups[i].val) : i \in {j \in 1..Len(groups) : IsExactGroup(groups[j])}}

Returned == pc \in {"grouped", "done"}

\* Fingerprints that are present (neither None nor empty) in the input.
Carried == {fingerprints[i].val : i \in {j \in 1..Len(fingerprints) : Truthy(fingerprints[j].val)}}

----------------------------------------------------------------------------
\* C1: after find_duplicates_by_fingerprints and get_unique_files every input
\* file path occurs exactly once in the group member lists and the unique
\* list taken together.
C1_Partition ==
    pc = "done" =>
        LET listed == AllMembers(duplicate_groups) \o unique_files
        IN  \A i \in 1..Len(fingerprints) :
                Occurrences(listed, fingerprints[i].key) = 1

\* A group, a fingerprinted file outside every group and a file without fingerprint.
C1_Witness ==
    /\ pc = "done"
    /\ Len(duplicate_groups) >= 1
    /\ \E i \in 1..Len(unique_files) : Truthy(FpOf(unique_files[i]))
    /\ \E i \in 1..Len(unique_files) : ~Truthy(FpOf(unique_files[i]))

\* C2: each present fingerprint string carried by two or more files gives
\* exactly one group, holding exactly those files in iteration order under
\* the first of them, and no other group touches them; a string carried by
\* one file gives no exact-match group; so the exact-match groups are as
\* many as the strings carried at least twice.
C2_ExactGroups ==
    Returned =>
        /\ \A fp \in Carried :
               LET files == FilesWith(fp)
               IN  /\ Len(files) >= 2 =>
                          /\ \E i \in 1..Len(duplicate_groups) :
                                 /\ duplicate_groups[i].val = files
                                 /\ duplicate_groups[i].key = files[1]
                          /\ Cardinality({i \in 1..Len(duplicate_groups) :
                                 Range(duplicate_groups[i].val) \cap Range(files) # {}}) = 1
                   /\ Len(files) = 1 =>
                          ~\E i \in 1..Len(duplicate_groups) :
                               /\ IsExactGroup(duplicate_groups[i])
                               /\ files[1] \in Range(duplicate_groups[i].val)
        /\ Cardinality({i \in 1..Len(duplicate_groups) : IsExactGroup(duplicate_groups[i])})
               = Cardinality({fp \in Carried : Len(FilesWith(fp)) >= 2})

\* Three files with one fingerprint string and a fourth with another.
C2_Witness ==
    /\ Returned
    /\ \E fp \in Carried : Len(FilesWith(fp)) = 3
    /\ \E fp \in Carried : Len(FilesWith(fp)) = 1
    /\ Len(duplicate_groups) = 1
    /\ Len(duplicate_groups[1].val) = 3

\* C3 as stated: any two members of a group carry the same fingerprint or
\* are at least similarity_threshold similar to each other.
C3_PairwiseSimilar ==
    Returned =>
        \A i \in 1..Len(duplicate_groups) :
            \A x, y \in Range(duplicate_groups[i].val) :
                \/ FpOf(x) = FpOf(y)
                \/ AtLeast(compare_audio_fingerprints(FpOf(x), FpOf(y)),
                           similarity_threshold)

\* C3 amended: every member of a group carries the fingerprint of the
\* group's first member or is at least similarity_threshold similar to that
\* first member.
C3_SimilarToFirst ==
    Returned =>
        \A i \in 1..Len(duplicate_groups) :
            \A x \in Range(duplicate_groups[i].val) :
                \/ FpOf(x) = FpOf(duplicate_groups[i].val[1])
                \/ AtLeast(compare_audio_fingerprints(FpOf(duplicate_groups[i].val[1]),
                                                      FpOf(x)),
                           similarity_threshold)

\* A group of three different fingerprints, two of them below the threshold
\* to each other.
C3_Witness ==
    /\ Returned
    /\ \E i \in 1..Len(duplicate_groups) :
           /\ Len(duplicate_groups[i].val) = 3
           /\ \E x, y \in Range(duplicate_groups[i].val) :
                  /\ FpOf(x) # FpOf(y)
                  /\ ~AtLeast(compare_audio_fingerprints(FpOf(x), FpOf(y)),
                              similarity_threshold)

\* C4: no file path twice in one group, none in two groups.
C4_Disjoint ==
    Returned =>
        LET members == AllMembers(duplicate_groups)
        IN  \A i, j \in 1..Len(members) : i # j => members[i] # members[j]

\* An exact-match group next to a near-duplicate group.
C4_Witness ==
    /\ Returned
    /\ \E i, j \in 1..Len(duplicate_groups) :
           /\ IsExactGroup(duplicate_groups[i])
           /\ IsNearGroup(duplicate_groups[j])

\* C5 as stated: the same pairs in another iteration order give the same
\* groups as sets of members.
C5_OrderIndependent ==
    (Returned /\ prior.kind = "reordered") =>
        MemberSets(duplicate_groups) = MemberSets(prior.duplicate_groups)

\* C5 amended: the same pairs in another iteration order give the same
\* exact-match groups as sets of members.
C5_ExactOrderIndependent ==
    (Returned /\ prior.kind = "reordered") =>
        ExactMemberSets(duplicate_groups) = ExactMemberSets(prior.duplicate_groups)

\* The reordering changed the representative of an exact-match group.
C5_Witness ==
    /\ Returned
    /\ prior.kind = "reordered"
    /\ \E i \in 1..Len(duplicate_groups), j \in 1..Len(prior.duplicate_groups) :
           /\ IsExactGroup(duplicate_groups[i])
           /\ Range(duplicate_groups[i].val) = Range(prior.duplicate_groups[j].val)
           /\ duplicate_groups[i].key # prior.duplicate_groups[j].key

\* The groups of the call with the lower and with the higher threshold, of
\* two calls that differ in the threshold only.
LowGroups ==
    IF prior.similarity_threshold <= similarity_threshold
    THEN prior.duplicate_groups ELSE duplicate_groups

HighGroups ==
    IF prior.similarity_threshold <= similarity_threshold
    THEN duplicate_groups ELSE prior.duplicate_groups

\* f is the first candidate of its prefix group: no file before it in the
\* dict is also alone with its fingerprint, long enough and of the same prefix.
FirstOfPrefix(f) ==
    ~\E i \in 1..(KeyIndex(fingerprints, f) - 1) :
        LET fp == fingerprints[i].val
        IN  /\ Truthy(fp)
            /\ Len(FilesWith(fp)) = 1
            /\ Len(fp) >= PrefixLen
            /\ Take(fp, PrefixLen) = Take(FpOf(f), PrefixLen)

\* C6 as stated: for thresholds t1 <= t2 every near-duplicate group at t2
\* lies within some group at t1.
C6_Monotone ==
    (Returned /\ prior.kind = "rethreshold") =>
        \A i \in 1..Len(HighGroups) :
            IsNearGroup(HighGroups[i]) =>
                \E j \in 1..Len(LowGroups) :
                    Range(HighGroups[i].val) \subseteq Range(LowGroups[j].val)

\* C6 amended: for thresholds t1 <= t2 every near-duplicate group at t2
\* whose first member is the first candidate of its prefix group lies within
\* some group at t1.
C6_MonotoneFirstAnchor ==
    (Returned /\ prior.kind = "rethreshold") =>
        \A i \in 1..Len(HighGroups) :
            (IsNearGroup(HighGroups[i]) /\ FirstOfPrefix(HighGroups[i].key)) =>
                \E j \in 1..Len(LowGroups) :
                    Range(HighGroups[i].val) \subseteq Range(LowGroups[j].val)

\* Such a group at the higher threshold, strictly smaller than the group
\* that holds it at the lower one.
C6_Witness ==
    /\ Returned
    /\ prior.kind = "rethreshold"
    /\ \E i \in 1..Len(HighGroups), j \in 1..Len(LowGroups) :
           /\ IsNearGroup(HighGroups[i])
           /\ FirstOfPrefix(HighGroups[i].key)
           /\ Range(HighGroups[i].val) \subseteq Range(LowGroups[j].val)
           /\ Range(HighGroups[i].val) # Range(LowGroups[j].val)

C8_MissingIsUnique ==
    pc = "done" =>
        LET grouped == Range(AllMembers(duplicate_groups))
        IN  \A i \in 1..Len(fingerprints) :
                ~Truthy(fingerprints[i].val) =>
                    /\ fingerprints[i].key \notin grouped
                    /\ fingerprints[i].key \in Range(unique_files)

\* Two files with the same missing fingerprint next to a group of other files.
C8_Witness ==
    /\ pc = "done"
    /\ \E i, j \in 1..Len(fingerprints) :
           /\ i # j
           /\ ~Truthy(fingerprints[i].val)
           /\ fingerprints[i].val = fingerprints[j].val
    /\ Len(duplicate_groups) >= 1

\* C9: compare_audio_fingerprints(a, b) = compare_audio_fingerprints(b, a).
C9_Symmetric ==
    cpc = "reversed" => similarity = reverse_similarity

\* Two decodable fingerprints of different lengths that agree in part.
C9_Witness ==
    /\ cpc = "reversed"
    /\ Truthy(fp1) /\ Truthy(fp2)
    /\ Len(fp1) # Len(fp2)
    /\ similarity \notin {Sim0, Sim100}

\* C10: equal arguments (both empty included) compare as 100.0; arguments of
\* which exactly one is empty compare as 0.0.
C10_EqualAndEmpty ==
    cpc \in {"returned", "reversed"} =>
        /\ fp1 = fp2 => similarity = Sim100
        /\ (Truthy(fp1) # Truthy(fp2)) => similarity = Sim0

\* An empty first argument against a present second one, in both orders.
C10_Witness ==
    /\ cpc = "reversed"
    /\ fp1 = <<>>
    /\ Truthy(fp2)
    /\ similarity = Sim0
    /\ reverse_similarity = Sim0

\* Four bits per character, the shorter bit string extended on the left with
\* zero bits to the length of the longer.
PaddedBits(fp, n) ==
    LET bits == DigitBits(fp)
    IN  [i \in 1..n |-> IF i <= n - Len(bits) THEN 0 ELSE bits[i - (n - Len(bits))]]

AgreeingBits(a, b) ==
    LET n == 4 * Max(Len(a), Len(b))
    IN  Cardinality({i \in 1..n : PaddedBits(a, n)[i] = PaddedBits(b, n)[i]})

IsHex(fp) == Truthy(fp) /\ ~RaisesValueError(fp)

\* C11: for two different non-empty hex fingerprints the similarity is
\* 100 * (agreeing bit positions) / (bit length of the longer), four bits per
\* digit and the shorter padded on the left with zeros, and lies in [0, 100].
C11_BitAgreement ==
    (cpc \in {"returned", "reversed"} /\ IsHex(fp1) /\ IsHex(fp2) /\ fp1 # fp2) =>
        /\ similarity = Ratio(100 * AgreeingBits(fp1, fp2), 4 * Max(Len(fp1), Len(fp2)))
        /\ similarity.num >= 0
        /\ similarity.num <= 100 * similarity.den

\* Hex fingerprints of different lengths, the shorter with a leading zero
\* digit, that agree in part.
C11_Witness ==
    /\ cpc = "returned"
    /\ IsHex(fp1) /\ IsHex(fp2)
    /\ Len(fp1) < Len(fp2)
    /\ fp1[1] = "0"
    /\ similarity \notin {Sim0, Sim100}

\* A fingerprint that is present and that int(.., 16) rejects.
Malformed(fp) == Truthy(fp) /\ RaisesValueError(fp)

\* C12 as stated, for the thresholds from 1 to 100: a malformed fingerprint
\* compares at 0.0 with every fingerprint, and a file carrying one is in no
\* group.
C12_MalformedNeverGrouped ==
    /\ (cpc = "returned" /\ Malformed(fp1)) => similarity = Sim0
    /\ (Returned /\ similarity_threshold \in 1..100) =>
           \A i \in 1..Len(duplicate_groups) :
               \A x \in Range(duplicate_groups[i].val) : ~Malformed(FpOf(x))

\* C12 amended: a malformed fingerprint compares at 0.0 with every other
\* string and at 100.0 with itself; a file carrying one shares a group only
\* with files carrying the identical string or, when the threshold is not
\* above 0, with files of its prefix bucket.
C12_MalformedOnlyWithIdentical ==
    /\ (cpc = "returned" /\ (Malformed(fp1) \/ Malformed(fp2))) =>
           similarity = (IF fp1 = fp2 THEN Sim100 ELSE Sim0)
    /\ Returned =>
           \A i \in 1..Len(duplicate_groups) :
               \A x, y \in Range(duplicate_groups[i].val) :
                   Malformed(FpOf(x)) =>
                       \/ FpOf(x) = FpOf(y)
                       \/ /\ similarity_threshold <= 0
                          /\ Take(FpOf(x), PrefixLen) = Take(FpOf(y), PrefixLen)

\* Above threshold 0: two files with one malformed string in a group, a file
\* with another malformed string of the same prefix outside every group, and
\* the two strings compared at 0.0.
C12_Witness ==
    /\ pc = "done"
    /\ similarity_threshold > 0
    /\ cpc = "returned"
    /\ Malformed(fp1) /\ Malformed(fp2) /\ fp1 # fp2
    /\ similarity = Sim0
    /\ \E i \in 1..Len(duplicate_groups) :
           /\ Len(duplicate_groups[i].val) = 2
           /\ Malformed(FpOf(duplicate_groups[i].val[1]))
    /\ \E i \in 1..Len(unique_files) : Malformed(FpOf(unique_files[i]))

\* sum(len(group) for group in duplicate_groups.values())
GroupSizes(groups) == Len(AllMembers(groups))

\* C13 as stated: an empty dict gives no groups, and the analysis of an
\* empty list of paths returns a result whose counts are all zero.
C13_EmptyIsValid ==
    /\ (Returned /\ fingerprints = <<>>) => duplicate_groups = <<>>
    /\ (filepaths = <<>> /\ pc \in {"returned", "raised"}) =>
           /\ result.outcome = "returned"
           /\ result.total_files = 0
           /\ result.unique_files = 0
           /\ result.duplicate_groups = 0
           /\ result.total_duplicates = 0

\* C14 as stated: a call whose threshold lies outside [0, 100] is rejected
\* before any processing; it never returns, and no groups come of it.
C14_InvalidConfigRejected ==
    (similarity_threshold < 0 \/ similarity_threshold > 100) =>
        /\ ~Returned
        /\ duplicate_groups = <<>>

\* C15 as stated: in the returned result the duplicates are the sum of
\* (group size - 1), the group count is the number of groups, unique_files is
\* the length of the unique list, and total_files = unique_files + the sum
\* of the group sizes.
C15_Totals ==
    pc = "returned" =>
        /\ result.total_duplicates = GroupSizes(duplicate_groups) - Len(duplicate_groups)
        /\ result.duplicate_groups = Len(duplicate_groups)
        /\ result.unique_files = Len(unique_files)
        /\ result.total_files = result.unique_files + GroupSizes(duplicate_groups)

\* f is a candidate of phase 3: alone with its fingerprint, which is long
\* enough for a prefix.
Candidate(f) ==
    /\ Truthy(FpOf(f))
    /\ Len(FilesWith(FpOf(f))) = 1
    /\ Len(FpOf(f)) >= PrefixLen

\* The candidates of f's prefix bucket that come before f in the input.
EarlierInBucket(f) ==
    {g \in Range(FilePaths) :
        /\ Candidate(g)
        /\ Take(FpOf(g), PrefixLen) = Take(FpOf(f), PrefixLen)
        /\ KeyIndex(fingerprints, g) < KeyIndex(fingerprints, f)}

SimilarTo(a, f) ==
    AtLeast(compare_audio_fingerprints(FpOf(a), FpOf(f)), similarity_threshold)

\* f starts a group: no anchor before it in its bucket is similar enough to it.
RECURSIVE IsAnchor(_)
IsAnchor(f) ==
    /\ Candidate(f)
    /\ \A g \in EarlierInBucket(f) : IsAnchor(g) => ~SimilarTo(g, f)

\* The files that join anchor a: the later candidates of its bucket, in
\* input order, similar enough to a and to no anchor before a.
Joiners(a) ==
    SelectSeq(FilePaths,
              LAMBDA f : /\ Candidate(f)
                         /\ a \in EarlierInBucket(f)
                         /\ SimilarTo(a, f)
                         /\ \A g \in EarlierInBucket(a) : IsAnchor(g) => ~SimilarTo(g, f))

\* C16: every group has at least two members and is keyed by its first
\* member; the first member of a near-duplicate group is the anchor that
\* started it, and comes before the other members in the input.
C16_KeyedByFirst ==
    Returned =>
        \A i \in 1..Len(duplicate_groups) :
            LET g == duplicate_groups[i]
            IN  /\ Len(g.val) >= 2
                /\ g.key = g.val[1]
                /\ \A j \in 1..Len(duplicate_groups) :
                       duplicate_groups[j].key = g.key => j = i
                /\ IsNearGroup(g) =>
                       /\ IsAnchor(g.val[1])
                       /\ \A k \in 2..Len(g.val) : g.val[1] \in EarlierInBucket(g.val[k])

\* An exact-match group and a near-duplicate group whose anchor is not the
\* first file of the input.
C16_Witness ==
    /\ Returned
    /\ \E i, j \in 1..Len(duplicate_groups) :
           /\ IsExactGroup(duplicate_groups[i])
           /\ IsNearGroup(duplicate_groups[j])
           /\ duplicate_groups[j].key # fingerprints[1].key
           /\ Len(duplicate_groups[j].val) >= 2

StillInPlace(file) == [path |-> file.filepath, content |-> file.filepath] \in disk_files

\* C17: a call of organize_files with dry_run = TRUE changes neither the
\* files nor the directories of the file system, so that every scanned file
\* is still at its path afterwards.
C17_DryRunMovesNothing ==
    [][(opc = "call" /\ dry_run) =>
           /\ disk_files' = disk_files
           /\ disk_dirs' = disk_dirs
           /\ \A i \in 1..Len(audio_files) : StillInPlace(audio_files[i])']_vars

\* After the command line without --execute: the plan holds a duplicate, a
\* version family and a format folder, main has made the output directory,
\* and none of the plan's directories is there.
C17_Witness ==
    /\ opc = "organized"
    /\ ~args_execute
    /\ dry_run
    /\ move_plan.duplicates # <<>>
    /\ move_plan.version_families # <<>>
    /\ move_plan.organized # <<>>
    /\ OutputDir \in disk_dirs
    /\ organized_dir \notin disk_dirs
    /\ \A i \in 1..Len(audio_files) : StillInPlace(audio_files[i])

\* C18: in each prefix bucket, in input order, every candidate that no
\* earlier anchor took is an anchor; its group is itself followed by exactly
\* the later candidates not taken before that are >= threshold to it, and is
\* returned when it has a second member.  No other near-duplicate group is
\* returned.
C18_AnchorOnly ==
    Returned =>
        /\ \A a \in Range(FilePaths) :
               IsAnchor(a) =>
                   IF Joiners(a) = <<>>
                   THEN a \notin files_in_groups(duplicate_groups)
                   ELSE \E i \in 1..Len(duplicate_groups) :
                            /\ duplicate_groups[i].key = a
                            /\ duplicate_groups[i].val = <<a>> \o Joiners(a)
        /\ \A i \in 1..Len(duplicate_groups) :
               Candidate(duplicate_groups[i].key) => IsAnchor(duplicate_groups[i].key)

\* A group, and a candidate of the same bucket left out of it: below the
\* threshold to the anchor, at or above it to another member.
C18_Witness ==
    /\ pc = "done"
    /\ \E i \in 1..Len(duplicate_groups), y \in Range(unique_files) :
           LET g == duplicate_groups[i]
           IN  /\ Candidate(y)
               /\ g.val[1] \in EarlierInBucket(y)
               /\ ~SimilarTo(g.val[1], y)
               /\ \E k \in 2..Len(g.val) : SimilarTo(g.val[k], y)

SamePrefix(f, g) == Take(FpOf(f), PrefixLen) = Take(FpOf(g), PrefixLen)

\* f and g are members of one group.
Together(f, g) ==
    \E i \in 1..Len(duplicate_groups) : {f, g} \subseteq Range(duplicate_groups[i].val)

\* C19 as stated: two files whose fingerprints differ within the first 8
\* characters are in no common group, and two single files that share the
\* prefix and are >= threshold to each other are in one group.
C19_PrefixBuckets ==
    Returned =>
        \A f, g \in Range(FilePaths) :
            /\ (Truthy(FpOf(f)) /\ Truthy(FpOf(g)) /\ ~SamePrefix(f, g)) => ~Together(f, g)
            /\ (f # g /\ Candidate(f) /\ Candidate(g) /\ SamePrefix(f, g) /\ SimilarTo(f, g))
                   => Together(f, g)

\* C19 amended: two files whose fingerprints differ within the first 8
\* characters are in no common group, and a single file is in one group with
\* the first single file of its prefix exactly when it is >= threshold to it.
C19_PrefixBucketsFirst ==
    Returned =>
        \A f, g \in Range(FilePaths) :
            /\ (Truthy(FpOf(f)) /\ Truthy(FpOf(g)) /\ ~SamePrefix(f, g)) => ~Together(f, g)
            /\ (Candidate(f) /\ Candidate(g) /\ f \in EarlierInBucket(g) /\ FirstOfPrefix(f))
                   => (Together(f, g) <=> SimilarTo(f, g))

\* At the default threshold: a near-duplicate group, and a single file of
\* the other prefix that is >= threshold to a member and outside the group.
C19_Witness ==
    /\ pc = "done"
    /\ similarity_threshold = DefaultThreshold
    /\ \E i \in 1..Len(duplicate_groups), y \in Range(unique_files) :
           LET g == duplicate_groups[i]
           IN  /\ IsNearGroup(g)
               /\ Candidate(y)
               /\ ~SamePrefix(g.val[1], y)
               /\ SimilarTo(g.val[1], y)

\* C20: a file whose fingerprint is shorter than 8 characters shares a group
\* only with files of the identical fingerprint; without such a file it is
\* in the unique list.
C20_ShortOnlyExact ==
    Returned =>
        \A f \in Range(FilePaths) :
            (Truthy(FpOf(f)) /\ Len(FpOf(f)) < PrefixLen) =>
                /\ \A g \in Range(FilePaths) : Together(f, g) => FpOf(g) = FpOf(f)
                /\ (pc = "done" /\ Len(FilesWith(FpOf(f))) = 1) =>
                       f \in Range(unique_files)

\* An exact-match group of a short fingerprint, and a file in the unique
\* list whose other short fingerprint is >= threshold to the group's.
C20_Witness ==
    /\ pc = "done"
    /\ \E i \in 1..Len(duplicate_groups), y \in Range(unique_files) :
           LET g == duplicate_groups[i]
           IN  /\ IsExactGroup(g)
               /\ Len(FpOf(g.val[1])) < PrefixLen
               /\ Truthy(FpOf(y)) /\ Len(FpOf(y)) < PrefixLen
               /\ SimilarTo(g.val[1], y)

----------------------------------------------------------------------------
(* Prefix buckets taken in another order *)

\* hash_prefixes as phase 2 builds it from the argument of the call.
Buckets ==
    hash_prefixes(single_files(fingerprint_to_files(valid_fingerprints(fingerprints),
                                                    <<>>)), <<>>)

BucketFiles(b) == {b.val[k][2] : k \in 1..Len(b.val)}

Reordered(s, p) == [i \in 1..Len(s) |-> s[p[i]]]

\* The body of the loop of phase 3 run on each bucket by itself, the
\* results put one after the other.
RECURSIVE ConcatBuckets(_, _)
ConcatBuckets(prefixes, threshold) ==
    IF prefixes = <<>> THEN <<>>
    ELSE near_duplicate_groups(<<Head(prefixes)>>, threshold, <<>>)
         \o ConcatBuckets(Tail(prefixes), threshold)

\* C21: no file is a candidate of two prefix buckets; in whatever order the
\* buckets are processed, each by itself, the concatenation of their results
\* holds no key twice and is, as a set of groups, the near-duplicate groups
\* of the call, which the returned dict carries unchanged.
C21_BucketsIndependent ==
    Returned =>
        /\ \A i, j \in 1..Len(Buckets) :
               i # j => BucketFiles(Buckets[i]) \cap BucketFiles(Buckets[j]) = {}
        /\ \A p \in Permutations(1..Len(Buckets)) :
               LET merged == ConcatBuckets(Reordered(Buckets, p), similarity_threshold)
               IN  /\ Cardinality(Range(Keys(merged))) = Len(merged)
                   /\ Range(merged) =
                          Range(near_duplicate_groups(Buckets, similarity_threshold, <<>>))
                   /\ Range(merged) =
                          {g \in Range(duplicate_groups) : IsNearGroup(g)}

\* Two buckets that each yield a near-duplicate group.
C21_Witness ==
    /\ Returned
    /\ \E i, j \in 1..Len(duplicate_groups) :
           /\ IsNearGroup(duplicate_groups[i])
           /\ IsNearGroup(duplicate_groups[j])
           /\ ~SamePrefix(duplicate_groups[i].key, duplicate_groups[j].key)

----------------------------------------------------------------------------
\* C22: with a progress callback supplied the call returns the groups it
\* returns without one for the dict it was passed, whatever the callback
\* stores in the caller's dict while it is called.
C22_CallbackObservesOnly ==
    Returned =>
        duplicate_groups = find_duplicates_by_fingerprints(caller_map, similarity_threshold)

\* A callback changed the caller's dict during the call; the groups returned
\* are not those of the changed dict.
C22_Witness ==
    /\ Returned
    /\ fingerprints # caller_map
    /\ duplicate_groups # <<>>
    /\ duplicate_groups # find_duplicates_by_fingerprints(fingerprints, similarity_threshold)

----------------------------------------------------------------------------
\* The groups of the pairwise search with each member replaced by its path.
PathsOf(groups) ==
    {[key |-> groups[i].key,
      val |-> [k \in 1..Len(groups[i].val) |-> groups[i].val[k].filepath]] :
         i \in 1..Len(groups)}

\* All fingerprints are present, pairwise distinct, at least 8 characters
\* long and of one prefix.
OneBucketOfSingles ==
    /\ \A i \in 1..Len(fingerprints) :
           /\ Truthy(fingerprints[i].val)
           /\ Len(fingerprints[i].val) >= PrefixLen
           /\ Take(fingerprints[i].val, PrefixLen) = Take(fingerprints[1].val, PrefixLen)
    /\ \A i, j \in 1..Len(fingerprints) :
           i # j => fingerprints[i].val # fingerprints[j].val

\* C23: on fingerprints that are present, pairwise distinct, at least 8
\* characters long and of one prefix, the pairwise search returns the groups
\* of the prefix buckets: the same keys, members and member order.
C23_PairwiseAgrees ==
    (pc = "compared" /\ OneBucketOfSingles) =>
        PathsOf(duplicate_groups) = Range(prior.duplicate_groups)

\* Such files of which one is left out of the group of the first although
\* it is >= threshold to a later member of that group.
C23_Witness ==
    /\ pc = "compared"
    /\ OneBucketOfSingles
    /\ duplicate_groups # <<>>
    /\ \E i \in 1..Len(prior.duplicate_groups), y \in Range(FilePaths) :
           LET g == prior.duplicate_groups[i]
           IN  /\ y \notin Range(AllMembers(prior.duplicate_groups))
               /\ \E k \in 2..Len(g.val) : SimilarTo(g.val[k], y)

----------------------------------------------------------------------------
\* C29: after _find_duplicates_original and after _find_duplicates_from_files
\* took a file-hash fallback (metrics disabled, or no fingerprint available)
\* no group holds two files whose file_hash is the empty string.
C29_UnhashedNeverDuplicates ==
    opc \in {"original", "metrics_disabled", "no_fingerprint"} =>
        \A g \in 1..Len(duplicate_groups) :
            \A i, j \in 1..Len(duplicate_groups[g].val) :
                (i # j /\ duplicate_groups[g].val[i].file_hash = "")
                    => duplicate_groups[g].val[j].file_hash # ""

----------------------------------------------------------------------------
\* How often the plan lists a file: in duplicates, in the families and in
\* the format folders.
Assignments(file) ==
    Occurrences(move_plan.duplicates, file)
    + SeqSum([i \in 1..Len(move_plan.version_families) |->
                 Occurrences(move_plan.version_families[i].val, file)])
    + SeqSum([i \in 1..Len(move_plan.organized) |->
                 Occurrences(move_plan.organized[i].val, file)])

\* The i-th scanned file has a content hash that an earlier scanned file has.
RepeatsEarlierHash(i) ==
    /\ audio_files[i].file_hash # ""
    /\ \E j \in 1..(i - 1) : audio_files[j].file_hash = audio_files[i].file_hash

InPlanDuplicates(i) == audio_files[i] \in Range(move_plan.duplicates)

\* C30 as stated: the plan lists every scanned file exactly once, and of the
\* files of one non-empty content hash exactly the first scanned is outside
\* Duplicates.
C30_PlanPartition ==
    opc = "organized" =>
        /\ \A i \in 1..Len(audio_files) : Assignments(audio_files[i]) = 1
        /\ \A i \in 1..Len(audio_files) :
               audio_files[i].file_hash # "" => (InPlanDuplicates(i) <=> RepeatsEarlierHash(i))

\* C30 amended: the plan lists every scanned file exactly once; a file is in
\* Duplicates exactly when duplicate detection is requested and an earlier
\* scanned file has its non-empty content hash.
C30_PlanPartitionWhenDetecting ==
    opc = "organized" =>
        /\ \A i \in 1..Len(audio_files) : Assignments(audio_files[i]) = 1
        /\ \A i \in 1..Len(audio_files) :
               InPlanDuplicates(i) <=> (detect_duplicates /\ RepeatsEarlierHash(i))

\* A plan with duplicate detection in which the second file of a content
\* hash is in Duplicates and the first is in a version family, next to a
\* file in a format folder.
C30_Witness ==
    /\ opc = "organized"
    /\ detect_duplicates
    /\ move_plan.organized # <<>>
    /\ \E i, j \in 1..Len(audio_files) :
           /\ j < i
           /\ audio_files[j].file_hash = audio_files[i].file_hash
           /\ InPlanDuplicates(i)
           /\ \E k \in 1..Len(move_plan.version_families) :
                  audio_files[j] \in Range(move_plan.version_families[k].val)

----------------------------------------------------------------------------
\* C24: whenever scan_progress['scanning'] is True it is False again at
\* some later time, given that every started background_scan thread runs on.
C24_ScanningEventuallyFalse ==
    [](scan_progress.scanning => <>(~scan_progress.scanning))

\* C25: while the cancellation stands (its error text is in place: no scan
\* was started since) scan_progress holds no result and no progress of 100.
C25_CancelledPublishesNothing ==
    scan_progress.error = ScanCancelled.error =>
        /\ scan_progress.result = None
        /\ scan_progress.progress # 100

\* C26: at most one background_scan thread is running.
C26_OneScanThread ==
    Cardinality({t \in Threads : Running(t)}) <= 1

----------------------------------------------------------------------------
\* The statuses after which a task is over.
Terminal == {"completed", "failed", "cancelled"}

\* C27: a task whose status is "completed", "failed" or "cancelled" keeps
\* that status in every step of the server.
C27_TerminalStatusFinal ==
    [][\A t \in TaskIds : tasks[t].status \in Terminal
                              => tasks'[t].status = tasks[t].status]_vars

====
